---- MODULE Spec2Model ----
(***************************************************************************)
(* Runner identity resolution of the Lough 5 race archive.                 *)
(*                                                                         *)
(* The model follows scripts/assign-ids-to-new-year.js (the Matcher).      *)
(* A JavaScript string is a sequence of one-character strings, so that     *)
(* normalisation, edit distance and slug generation are computed the way   *)
(* the script computes them.  A character outside ASCII is written as an   *)
(* entity token ("&eacute;", "&rsquo;") and counts as one character.       *)
(* A similarity 1 - d/len is the exact fraction <<len - d, len>>; the      *)
(* IEEE doubles of the script order these fractions, and compare them to   *)
(* the thresholds, exactly as the fractions do for names this short.       *)
(***************************************************************************)
EXTENDS Integers, Sequences, FiniteSets, TLC

(***************************************************************************)
(* Characters and strings                                                  *)
(***************************************************************************)
LowerChars == <<"a","b","c","d","e","f","g","h","i","j","k","l","m",
                "n","o","p","q","r","s","t","u","v","w","x","y","z">>

UpperChars == <<"A","B","C","D","E","F","G","H","I","J","K","L","M",
                "N","O","P","Q","R","S","T","U","V","W","X","Y","Z">>

DigitChars == <<"0","1","2","3","4","5","6","7","8","9">>

Range(s) == {s[i] : i \in DOMAIN s}

Min2(a, b) == IF a <= b THEN a ELSE b

Max2(a, b) == IF a >= b THEN a ELSE b

IndexOf(c, s) == CHOOSE i \in DOMAIN s : s[i] = c

\* the array with the elements f[1], ..., f[n], each computed once
Array(f) == f \o <<>>

LowerSet == Range(LowerChars)

UpperSet == Range(UpperChars)

DigitSet == Range(DigitChars)

\* String.prototype.toLowerCase, one character
toLowerChar(c) ==
    IF c \in UpperSet THEN LowerChars[IndexOf(c, UpperChars)]
    ELSE IF c = "&Eacute;" THEN "&eacute;"
    ELSE IF c = "&Aacute;" THEN "&aacute;"
    ELSE c

toLowerCase(s) == Array([i \in DOMAIN s |-> toLowerChar(s[i])])

\* String.prototype.toUpperCase, one character
toUpperChar(c) ==
    IF c \in LowerSet THEN UpperChars[IndexOf(c, LowerChars)]
    ELSE IF c = "&eacute;" THEN "&Eacute;"
    ELSE IF c = "&aacute;" THEN "&Aacute;"
    ELSE c

\* the class \s of the regular expressions
IsSpace(c) == c \in {" ", "\t"}

RECURSIVE trimStart(_)
trimStart(s) ==
    IF s # <<>> /\ IsSpace(Head(s)) THEN trimStart(Tail(s)) ELSE s

RECURSIVE trimEnd(_)
trimEnd(s) ==
    IF s # <<>> /\ IsSpace(s[Len(s)]) THEN trimEnd(SubSeq(s, 1, Len(s) - 1)) ELSE s

\* String.prototype.trim
trim(s) == trimEnd(trimStart(s))

\* the replace(...) chain of normalizeAccents, one character; the flags gi
\* send an upper-case accented vowel to the plain lower-case vowel
normalizeAccentChar(c) ==
    IF c \in {"&aacute;", "&Aacute;", "&agrave;"} THEN "a"
    ELSE IF c \in {"&eacute;", "&Eacute;", "&egrave;"} THEN "e"
    ELSE IF c \in {"&iacute;"} THEN "i"
    ELSE IF c \in {"&oacute;", "&ouml;"} THEN "o"
    ELSE IF c \in {"&uacute;"} THEN "u"
    ELSE IF c \in {"&ntilde;"} THEN "n"
    ELSE IF c \in {"&ccedil;"} THEN "c"
    ELSE IF c \in {"&lsquo;", "&rsquo;"} THEN "'"
    ELSE c

\* normalizeAccents: '' for a missing string
normalizeAccents(str) ==
    Array([i \in DOMAIN str |-> normalizeAccentChar(str[i])])

\* the punctuation class of normalizeName (the backquote is "&grave;")
NamePunctuation ==
    {".", ",", "/", "#", "!", "$", "%", "^", "&", "*", ";", ":",
     "{", "}", "=", "-", "_", "&grave;", "~", "(", ")"}

normalizeName(name) ==
    SelectSeq(trim(toLowerCase(normalizeAccents(name))),
              LAMBDA c : ~IsSpace(c) /\ c \notin NamePunctuation)

(***************************************************************************)
(* Edit distance and similarity                                            *)
(***************************************************************************)
\* one row of the matrix: the cells matrix[i][0..len2], kept as a sequence
\* whose element j+1 is matrix[i][j].  (The tests on Len are always true:
\* they make TLC compute a row before it goes on to the next cell.)
RECURSIVE levenshteinRow(_, _, _, _, _)
levenshteinRow(prev, ch, str2, j, acc) ==
    IF j > Len(str2) THEN acc
    ELSE LET cost == IF ch = str2[j] THEN 0 ELSE 1
             cell == Min2(Min2(prev[j + 1] + 1, acc[j] + 1), prev[j] + cost)
             row == Append(acc, cell)
         IN  IF Len(row) = j + 1
             THEN levenshteinRow(prev, ch, str2, j + 1, row)
             ELSE row

RECURSIVE levenshteinRows(_, _, _, _)
levenshteinRows(str1, str2, i, prev) ==
    IF i > Len(str1) THEN prev[Len(str2) + 1]
    ELSE LET row == levenshteinRow(prev, str1[i], str2, 1, <<i>>)
         IN  IF Len(row) = Len(str2) + 1
             THEN levenshteinRows(str1, str2, i + 1, row)
             ELSE 0

levenshteinDistance(str1, str2) ==
    IF Len(str1) = 0 THEN Len(str2)
    ELSE IF Len(str2) = 0 THEN Len(str1)
    ELSE levenshteinRows(str1, str2, 1, [j \in 1..(Len(str2) + 1) |-> j - 1])

\* a similarity is the fraction <<numerator, denominator>>
One == <<1, 1>>

Zero == <<0, 1>>

SimGT(a, b) == a[1] * b[2] > b[1] * a[2]

\* a >= pct / 100
SimAtLeast(a, pct) == 100 * a[1] >= pct * a[2]

\* calculateSimilarity from its second statement on: 1 for equal normalised
\* names, 1 - distance / maxLength otherwise
similarityOfNormalized(normalized1, normalized2) ==
    IF normalized1 = normalized2 THEN One
    ELSE <<Max2(Len(normalized1), Len(normalized2))
               - levenshteinDistance(normalized1, normalized2),
           Max2(Len(normalized1), Len(normalized2))>>

calculateSimilarity(name1, name2) ==
    similarityOfNormalized(normalizeName(name1), normalizeName(name2))

\* name.trim().split(/\s+/)[0]
RECURSIVE firstToken(_)
firstToken(s) ==
    IF s = <<>> \/ IsSpace(Head(s)) THEN <<>>
    ELSE <<Head(s)>> \o firstToken(Tail(s))

firstThree(name) ==
    LET tok == firstToken(trim(name))
    IN  toLowerCase(SubSeq(tok, 1, Min2(3, Len(tok))))

\* the gender of a category code: "M", "F" or "" for null
getGender(category) ==
    IF category = <<>> THEN ""
    ELSE IF toUpperChar(category[1]) = "M" THEN "M"
    ELSE IF toUpperChar(category[1]) = "F" THEN "F"
    ELSE ""

(***************************************************************************)
(* Finish times.  A time string is the sequence of the integers that       *)
(* splitting at the colons and parseInt give: 0:25:30 is <<0, 25, 30>>,    *)
(* and a missing or empty field is <<>>.                                   *)
(***************************************************************************)
TIME_VARIANCE_PCT == 40

\* seconds, or 0 where the script has null (a null and a zero are both falsy
\* in the one place the value is used)
timeToSeconds(timeStr) ==
    IF Len(timeStr) = 2 THEN timeStr[1] * 60 + timeStr[2]
    ELSE IF Len(timeStr) = 3 THEN timeStr[1] * 3600 + timeStr[2] * 60 + timeStr[3]
    ELSE 0

Abs(x) == IF x < 0 THEN -x ELSE x

isReasonableTimeVariance(time1Str, time2Str) ==
    LET time1 == timeToSeconds(time1Str)
        time2 == timeToSeconds(time2Str)
    IN  IF time1 = 0 \/ time2 = 0 THEN TRUE
        ELSE 100 * Abs(time1 - time2) <= TIME_VARIANCE_PCT * Min2(time1, time2)

(***************************************************************************)
(* ID minting                                                              *)
(***************************************************************************)
\* the decimal digits of a natural number, as a template literal prints it
RECURSIVE numberToString(_)
numberToString(n) ==
    IF n < 10 THEN <<DigitChars[n + 1]>>
    ELSE numberToString(n \div 10) \o <<DigitChars[(n % 10) + 1]>>

\* replace(/\s+/g, '-'): every run of white space becomes one hyphen
RECURSIVE hyphenate(_)
hyphenate(s) ==
    IF s = <<>> THEN <<>>
    ELSE IF IsSpace(Head(s))
         THEN IF Len(s) > 1 /\ IsSpace(s[2]) THEN hyphenate(Tail(s))
              ELSE <<"-">> \o hyphenate(Tail(s))
         ELSE <<Head(s)>> \o hyphenate(Tail(s))

\* normalizeAccents(x).toLowerCase().trim().replace(/[^a-z0-9\s]/g, '')
\*                    .replace(/\s+/g, '-')
slug(x) ==
    hyphenate(SelectSeq(trim(toLowerCase(normalizeAccents(x))),
                        LAMBDA c : c \in LowerSet \/ c \in DigitSet \/ IsSpace(c)))

\* split('-')[0]
RECURSIVE beforeHyphen(_)
beforeHyphen(s) ==
    IF s = <<>> \/ Head(s) = "-" THEN <<>>
    ELSE <<Head(s)>> \o beforeHyphen(Tail(s))

UnknownRunner == <<"u","n","k","n","o","w","n","-","r","u","n","n","e","r","-">>

\* let counter = from; while (existingIds.has(prefix + counter)) counter++
RECURSIVE firstFreeCounter(_, _, _)
firstFreeCounter(prefix, existingIds, counter) ==
    IF (prefix \o numberToString(counter)) \in existingIds
    THEN firstFreeCounter(prefix, existingIds, counter + 1)
    ELSE prefix \o numberToString(counter)

(***************************************************************************)
(* The names, categories and clubs that occur in the archive               *)
(***************************************************************************)
JohnSmith ==
    <<"J","o","h","n"," ","S","m","i","t","h">>

JonSmith ==
    <<"J","o","n"," ","S","m","i","t","h">>

JohnSmyth ==
    <<"J","o","h","n"," ","S","m","y","t","h">>

SeanMurphy ==
    <<"S","e","a","n"," ","M","u","r","p","h","y">>

ShaunMurphy ==
    <<"S","h","a","u","n"," ","M","u","r","p","h","y">>

ChristopherGallagher ==
    <<"C","h","r","i","s","t","o","p","h","e","r"," ","G","a","l","l","a","g","h","e","r">>

ChristoferGallaher ==
    <<"C","h","r","i","s","t","o","f","e","r"," ","G","a","l","l","a","h","e","r">>

ChristopherMontgomeryHall ==
    <<"C","h","r","i","s","t","o","p","h","e","r"," ","M","o","n","t","g","o","m","e","r","y","-","H","a","l","l">>

ChristoferMontgomeryHall ==
    <<"C","h","r","i","s","t","o","f","e","r"," ","M","o","n","t","g","o","m","e","r","y","-","H","a","l","l">>

PatrickONeill ==
    <<"P","a","t","r","i","c","k"," ","O","&rsquo;","N","e","i","l","l">>

PatONeill ==
    <<"P","a","t"," ","O","'","N","e","i","l","l">>

PaulONeill ==
    <<"P","a","u","l"," ","O","'","N","e","i","l","l">>

MaryKelly ==
    <<"M","a","r","y"," ","K","e","l","l","y">>

KhristoferGallaher ==
    <<"K","h","r","i","s","t","o","f","e","r"," ","G","a","l","l","a","h","e","r">>

\* Sean Murphy with the fada on the e
SeanFadaMurphy ==
    <<"S","&eacute;","a","n"," ","M","u","r","p","h","y">>

BelfastAC ==
    <<"B","e","l","f","a","s","t"," ","A","C">>

OmaghHarriers ==
    <<"O","m","a","g","h"," ","H","a","r","r","i","e","r","s">>

M35 ==
    <<"M","3","5">>

M40 ==
    <<"M","4","0">>

M45 ==
    <<"M","4","5">>

M50 ==
    <<"M","5","0">>

F40 ==
    <<"F","4","0">>

NoClub == <<>>

NoCategory == <<>>

NoTime == <<>>

\* a runner_id as minting writes it for a name nobody carries yet
IdOf(name) == slug(name)

IdSeanMurphyBelfast == slug(SeanMurphy) \o <<"-">> \o beforeHyphen(slug(BelfastAC))

\* every name of the archive
Names ==
    << JohnSmith, JonSmith, JohnSmyth, SeanMurphy, ShaunMurphy,
       ChristopherGallagher, ChristoferGallaher, ChristopherMontgomeryHall,
       ChristoferMontgomeryHall, PatrickONeill, PatONeill, MaryKelly,
       KhristoferGallaher, SeanFadaMurphy >>

NameSet == Range(Names)

(***************************************************************************)
(* The string functions on the names of the archive.  A run calls them on  *)
(* the same few names again and again; each table below holds the values   *)
(* of one function on Names, computed once by that function, and the       *)
(* operator after it reads the table and computes where the table ends.    *)
(***************************************************************************)
NormalizeNameOfNames ==
    Array([i \in DOMAIN Names |-> normalizeName(Names[i])])

normalizedName(name) ==
    IF name \in NameSet THEN NormalizeNameOfNames[IndexOf(name, Names)]
    ELSE normalizeName(name)

SimilarityOfNames ==
    Array([i \in DOMAIN Names |->
            Array([j \in DOMAIN Names |-> calculateSimilarity(Names[i], Names[j])])])

similarity(name1, name2) ==
    IF name1 \in NameSet /\ name2 \in NameSet
    THEN SimilarityOfNames[IndexOf(name1, Names)][IndexOf(name2, Names)]
    ELSE calculateSimilarity(name1, name2)

FirstThreeOfNames ==
    Array([i \in DOMAIN Names |-> firstThree(Names[i])])

firstThreeOf(name) ==
    IF name \in NameSet THEN FirstThreeOfNames[IndexOf(name, Names)]
    ELSE firstThree(name)

\* firstNameMatches gone wrong: substring(0, 1), the initial alone
firstNameMatchesInitial(name1, name2) ==
    SubSeq(firstThreeOf(name1), 1, Min2(1, Len(firstThreeOf(name1))))
        = SubSeq(firstThreeOf(name2), 1, Min2(1, Len(firstThreeOf(name2))))

firstNameMatches(name1, name2) == firstThreeOf(name1) = firstThreeOf(name2)

SlugOfNames ==
    Array([i \in DOMAIN Names |-> slug(Names[i])])

slugOf(x) ==
    IF x \in NameSet THEN SlugOfNames[IndexOf(x, Names)]
    ELSE slug(x)

\* runnerIdFrom gone wrong: the counter is tried before the club
runnerIdFromCounterFirst(name, existingIds, club, id, clubPart) ==
    IF trim(name) = <<>> THEN firstFreeCounter(UnknownRunner, existingIds, 1)
    ELSE IF id = <<>> THEN firstFreeCounter(UnknownRunner, existingIds, 1)
    ELSE IF id \notin existingIds THEN id
    ELSE firstFreeCounter(id \o <<"-">>, existingIds, 2)

\* generateRunnerId once id and clubPart are computed (clubPart is read only
\* where the script computes it: club present, id taken)
runnerIdFrom(name, existingIds, club, id, clubPart) ==
    IF trim(name) = <<>> THEN firstFreeCounter(UnknownRunner, existingIds, 1)
    ELSE IF id = <<>> THEN firstFreeCounter(UnknownRunner, existingIds, 1)
    ELSE IF id \notin existingIds THEN id
    ELSE IF club # <<>> /\ (id \o <<"-">> \o clubPart) \notin existingIds
    THEN id \o <<"-">> \o clubPart
    ELSE firstFreeCounter(id \o <<"-">>, existingIds, 2)

generateRunnerId(name, existingIds, club) ==
    runnerIdFrom(name, existingIds, club, slugOf(name), beforeHyphen(slugOf(club)))

(***************************************************************************)
(* Files.  A result file is the sequence of its result objects; runner_id  *)
(* is <<>> while the field is missing.  A ledger file is a record with the *)
(* year and the decisions, or NoFile.                                      *)
(***************************************************************************)
DEFAULT_AUTO_THRESHOLD == 92

WARNING_THRESHOLD == 85

\* the literal 0.80 of the duplicate scan
DUPLICATE_THRESHOLD == 80

\* the literal 5 of the recent-years filter, and of slice(-5)
RECENT_YEARS == 5

RECENT_RESULTS == 5

NoFile == [year |-> 0, decisions |-> <<>>]

NoId == <<>>

Result(position, name, category, club, chipTime, runnerId) ==
    [Position |-> position, Name |-> name, Category |-> category,
     Club |-> club, ChipTime |-> chipTime, runner_id |-> runnerId]

\* elements of seq from index k on, in order
RECURSIVE Concat(_, _)
Concat(seqs, k) ==
    IF k > Len(seqs) THEN <<>> ELSE seqs[k] \o Concat(seqs, k + 1)

\* the distinct elements of a sequence in order of first occurrence
RECURSIVE Distinct(_, _, _)
Distinct(seq, k, acc) ==
    IF k > Len(seq) THEN acc
    ELSE Distinct(seq, k + 1,
                  IF seq[k] \in Range(acc) THEN acc ELSE Append(acc, seq[k]))

\* loadDisambiguation: the decisions that count, in file order (the Map
\* keeps the last decision of a key)
loadDisambiguation(ledgerFile, year) ==
    IF ledgerFile = NoFile THEN <<>>
    ELSE IF ledgerFile.year # year THEN <<>>
    ELSE ledgerFile.decisions

disambiguationHas(disambiguation, position, name) ==
    \E k \in DOMAIN disambiguation :
        disambiguation[k].position = position /\ disambiguation[k].name = name

disambiguationGet(disambiguation, position, name) ==
    LET hits == {k \in DOMAIN disambiguation :
                    disambiguation[k].position = position
                    /\ disambiguation[k].name = name}
        last == CHOOSE k \in hits : \A h \in hits : h <= k
    IN  disambiguation[last].runner_id

\* loadReferenceData: the results of the years before targetYear that carry a
\* runner_id, each with its year, files in ascending order of year.  order is
\* the order in which for-in meets the runner ids (first appearance; ids are
\* slugs, never canonical array indices); groups[k] is the group of order[k].
loadReferenceData(files, years, targetYear) ==
    LET perYear == Array([k \in DOMAIN years |->
                      IF years[k] < targetYear
                      THEN Array([i \in DOMAIN files[years[k]] |->
                              [result |-> files[years[k]][i], year |-> years[k]]])
                      ELSE <<>>])
        tagged == SelectSeq(Concat(perYear, 1),
                            LAMBDA r : r.result.runner_id # NoId)
        ids == Distinct(Array([i \in DOMAIN tagged |-> tagged[i].result.runner_id]),
                        1, <<>>)
    IN  [order |-> ids,
         groups |-> Array([k \in DOMAIN ids |->
                       SelectSeq(tagged, LAMBDA r : r.result.runner_id = ids[k])]),
         existingIds |-> Range(ids)]

\* slice(-n)
lastN(seq, n) ==
    IF Len(seq) <= n THEN seq ELSE SubSeq(seq, Len(seq) - n + 1, Len(seq))

\* the results of a runner that the time check reads
resultsToCheck(group, targetYear) ==
    LET recentResults ==
            lastN(SelectSeq(group, LAMBDA r : r.year # 0
                                /\ targetYear - r.year <= RECENT_YEARS),
                  RECENT_RESULTS)
    IN  IF Len(recentResults) > 0 THEN recentResults ELSE group

\* timeConsistent gone wrong: the time is checked against sampleResult only
timeConsistentWithSample(result, group, targetYear) ==
    (group[1].result.ChipTime # <<>> /\ result.ChipTime # <<>>)
        => isReasonableTimeVariance(group[1].result.ChipTime, result.ChipTime)

timeConsistent(result, group, targetYear) ==
    LET toCheck == resultsToCheck(group, targetYear)
    IN  \A k \in DOMAIN toCheck :
            (toCheck[k].result.ChipTime # <<>> /\ result.ChipTime # <<>>)
                => isReasonableTimeVariance(toCheck[k].result.ChipTime,
                                            result.ChipTime)

\* if (resultGender && groupGender && resultGender !== groupGender) continue
genderConflict(resultGender, groupGender) ==
    resultGender # "" /\ groupGender # "" /\ resultGender # groupGender

NoMatch == [runnerId |-> NoId, confidence |-> Zero, reason |-> "none"]

\* the known-name-change block of findBestMatch for one runner
knownNameChangeMatches(result, runnerId, group, nameChanges, targetYear) ==
    /\ runnerId \in DOMAIN nameChanges
    /\ \E k \in DOMAIN nameChanges[runnerId] :
           normalizedName(result.Name) = normalizedName(nameChanges[runnerId][k])
    /\ ~genderConflict(getGender(result.Category),
                       getGender(group[1].result.Category))
    /\ timeConsistent(result, group, targetYear)

\* if (similarity > bestSimilarity) { bestSimilarity = ...; bestHistoricalName = ... }
betterHistorical(best, sim, historicalName) ==
    IF SimGT(sim, best.similarity)
    THEN [similarity |-> sim, name |-> historicalName, found |-> TRUE]
    ELSE best

\* the loop over historicalNames: the first name with the greatest similarity
RECURSIVE bestHistorical(_, _, _, _)
bestHistorical(name, historicalNames, k, best) ==
    IF k > Len(historicalNames) THEN best
    ELSE bestHistorical(name, historicalNames, k + 1,
             betterHistorical(best, similarity(name, historicalNames[k]),
                              historicalNames[k]))

\* [...new Set(group.map(r => r.result.Name))]
historicalNamesOf(group) ==
    Distinct(Array([k \in DOMAIN group |-> group[k].result.Name]), 1, <<>>)

\* bestSimilarity = 0, bestHistoricalName = null
NoHistorical == [similarity |-> Zero, name |-> <<>>, found |-> FALSE]

\* the gates on the best historical name of one runner, in the order of the
\* script: warning threshold, first name, gender, time
gatesOf(result, group, targetYear, best) ==
    IF ~SimAtLeast(best.similarity, WARNING_THRESHOLD) THEN Zero
    ELSE IF ~firstNameMatches(result.Name, best.name) THEN Zero
    ELSE IF genderConflict(getGender(result.Category),
                           getGender(group[1].result.Category)) THEN Zero
    ELSE IF ~timeConsistent(result, group, targetYear) THEN Zero
    ELSE best.similarity

\* gatedSimilarity gone wrong: the first-name check is left out
gatedSimilarityAnyFirstName(result, group, targetYear) ==
    LET best == bestHistorical(result.Name, historicalNamesOf(group), 1,
                               NoHistorical)
    IN  IF ~SimAtLeast(best.similarity, WARNING_THRESHOLD) THEN Zero
        ELSE IF genderConflict(getGender(result.Category),
                               getGender(group[1].result.Category)) THEN Zero
        ELSE IF ~timeConsistent(result, group, targetYear) THEN Zero
        ELSE best.similarity

\* the similarity block of findBestMatch for one runner: the similarity it
\* scores, or Zero when a gate makes the loop continue
gatedSimilarity(result, group, targetYear) ==
    gatesOf(result, group, targetYear,
            bestHistorical(result.Name, historicalNamesOf(group), 1, NoHistorical))

\* betterMatch gone wrong: >= for >, the runner met last wins a tie
betterMatchLastMet(bestMatch, runnerId, score) ==
    IF score # Zero /\ ~SimGT(bestMatch.confidence, score)
    THEN [runnerId |-> runnerId, confidence |-> score, reason |-> "similarity"]
    ELSE bestMatch

\* if (bestSimilarity > bestMatch.confidence) bestMatch = {...}
betterMatch(bestMatch, runnerId, score) ==
    IF SimGT(score, bestMatch.confidence)
    THEN [runnerId |-> runnerId, confidence |-> score, reason |-> "similarity"]
    ELSE bestMatch

RECURSIVE findBestMatchFrom(_, _, _, _, _, _)
findBestMatchFrom(result, runnerGroups, nameChanges, targetYear, k, bestMatch) ==
    IF k > Len(runnerGroups.order) THEN bestMatch
    ELSE IF knownNameChangeMatches(result, runnerGroups.order[k],
                                   runnerGroups.groups[k], nameChanges, targetYear)
    THEN [runnerId |-> runnerGroups.order[k], confidence |-> One,
          reason |-> "known_name_change"]
    ELSE findBestMatchFrom(result, runnerGroups, nameChanges, targetYear, k + 1,
             betterMatch(bestMatch, runnerGroups.order[k],
                         gatedSimilarity(result, runnerGroups.groups[k],
                                         targetYear)))

findBestMatch(result, runnerGroups, nameChanges, targetYear) ==
    findBestMatchFrom(result, runnerGroups, nameChanges, targetYear, 1, NoMatch)

(***************************************************************************)
(* assignIdsToNewYear                                                      *)
(***************************************************************************)
\* Phase 1, what the thresholds make of the best match of a result
routeOfMatch(match, confidence) ==
    IF match # NoMatch /\ SimAtLeast(match.confidence, confidence)
    THEN [kind |-> "auto", runnerId |-> match.runnerId,
          confidence |-> match.confidence, reason |-> match.reason]
    ELSE IF match # NoMatch /\ SimAtLeast(match.confidence, WARNING_THRESHOLD)
    THEN [kind |-> "warn", runnerId |-> match.runnerId,
          confidence |-> match.confidence, reason |-> match.reason]
    ELSE [kind |-> "none", runnerId |-> NoId,
          confidence |-> Zero, reason |-> "none"]

\* phase1 gone wrong: the ledger is read only after the match has failed
phase1LedgerAfterMatch(result, runnerGroups, nameChanges, disambiguation, targetYear, confidence) ==
    LET match == findBestMatch(result, runnerGroups, nameChanges, targetYear)
    IN  IF result.runner_id # NoId
        THEN [kind |-> "already", runnerId |-> result.runner_id,
              confidence |-> Zero, reason |-> "none"]
        ELSE IF match # NoMatch /\ SimAtLeast(match.confidence, confidence)
        THEN [kind |-> "auto", runnerId |-> match.runnerId,
              confidence |-> match.confidence, reason |-> match.reason]
        ELSE IF disambiguationHas(disambiguation, result.Position, result.Name)
        THEN [kind |-> "ledger",
              runnerId |-> disambiguationGet(disambiguation, result.Position,
                                             result.Name),
              confidence |-> Zero, reason |-> "none"]
        ELSE IF match # NoMatch /\ SimAtLeast(match.confidence, WARNING_THRESHOLD)
        THEN [kind |-> "warn", runnerId |-> match.runnerId,
              confidence |-> match.confidence, reason |-> match.reason]
        ELSE [kind |-> "none", runnerId |-> NoId,
              confidence |-> Zero, reason |-> "none"]

\* phase1 gone wrong: the results that carry a runner_id are processed too
phase1EveryResult(result, runnerGroups, nameChanges, disambiguation, targetYear, confidence) ==
    LET match == findBestMatch(result, runnerGroups, nameChanges, targetYear)
    IN  IF disambiguationHas(disambiguation, result.Position, result.Name)
        THEN [kind |-> "ledger",
              runnerId |-> disambiguationGet(disambiguation, result.Position,
                                             result.Name),
              confidence |-> Zero, reason |-> "none"]
        ELSE IF match # NoMatch /\ SimAtLeast(match.confidence, confidence)
        THEN [kind |-> "auto", runnerId |-> match.runnerId,
              confidence |-> match.confidence, reason |-> match.reason]
        ELSE IF match # NoMatch /\ SimAtLeast(match.confidence, WARNING_THRESHOLD)
        THEN [kind |-> "warn", runnerId |-> match.runnerId,
              confidence |-> match.confidence, reason |-> match.reason]
        ELSE [kind |-> "none", runnerId |-> NoId,
              confidence |-> Zero, reason |-> "none"]

\* phase1 gone wrong: the disambiguation key is the Position alone
phase1KeyedByPosition(result, runnerGroups, nameChanges, disambiguation, targetYear, confidence) ==
    LET hits == {k \in DOMAIN disambiguation :
                    disambiguation[k].position = result.Position}
    IN  IF result.runner_id # NoId
        THEN [kind |-> "already", runnerId |-> result.runner_id,
              confidence |-> Zero, reason |-> "none"]
        ELSE IF hits # {}
        THEN [kind |-> "ledger",
              runnerId |-> disambiguation[CHOOSE k \in hits :
                                              \A h \in hits : h <= k].runner_id,
              confidence |-> Zero, reason |-> "none"]
        ELSE routeOfMatch(findBestMatch(result, runnerGroups, nameChanges,
                                        targetYear),
                          confidence)

\* Phase 1, one result: what the loop body does with it
\*   "already": it carried a runner_id and is not processed
\*   "ledger":  runner_id from the disambiguation map
\*   "auto":    runner_id of the best match
\*   "warn":    a warning is pushed, the result goes to stillUnassigned
\*   "none":    the result goes to stillUnassigned
phase1(result, runnerGroups, nameChanges, disambiguation, targetYear, confidence) ==
    IF result.runner_id # NoId
    THEN [kind |-> "already", runnerId |-> result.runner_id,
          confidence |-> Zero, reason |-> "none"]
    ELSE IF disambiguationHas(disambiguation, result.Position, result.Name)
    THEN [kind |-> "ledger",
          runnerId |-> disambiguationGet(disambiguation, result.Position,
                                         result.Name),
          confidence |-> Zero, reason |-> "none"]
    ELSE routeOfMatch(findBestMatch(result, runnerGroups, nameChanges, targetYear),
                      confidence)

\* Phase 2, one pair of stillUnassigned: is it pushed to duplicatePairs
isDuplicatePair(result1, result2, disambiguation) ==
    /\ ~disambiguationHas(disambiguation, result1.Position, result1.Name)
    /\ ~disambiguationHas(disambiguation, result2.Position, result2.Name)
    /\ SimAtLeast(similarity(result1.Name, result2.Name),
                  DUPLICATE_THRESHOLD)
    /\ firstNameMatches(result1.Name, result2.Name)
    /\ ~genderConflict(getGender(result1.Category), getGender(result2.Category))

\* the pairs i < j of the nested loops, in the order the loops meet them
RECURSIVE pairsFrom(_, _, _)
pairsFrom(n, i, j) ==
    IF i >= n THEN <<>>
    ELSE IF j > n THEN pairsFrom(n, i + 1, i + 2)
    ELSE <<<<i, j>>>> \o pairsFrom(n, i, j + 1)

\* duplicatePairs.push({positions, names, similarity})
duplicatePair(result1, result2) ==
    [positions |-> <<result1.Position, result2.Position>>,
     names |-> <<result1.Name, result2.Name>>,
     similarity |-> similarity(result1.Name, result2.Name)]

\* the pairs pushed, given the index pairs that pass the tests
duplicatePairsAt(stillUnassigned, hits) ==
    Array([k \in DOMAIN hits |->
             duplicatePair(stillUnassigned[hits[k][1]], stillUnassigned[hits[k][2]])])

duplicatePairsOf(stillUnassigned, disambiguation) ==
    duplicatePairsAt(stillUnassigned,
        SelectSeq(pairsFrom(Len(stillUnassigned), 1, 2),
                  LAMBDA p : isDuplicatePair(stillUnassigned[p[1]],
                                             stillUnassigned[p[2]],
                                             disambiguation)))

\* inDuplicatePairOf gone wrong: result2.Position is never added
inDuplicatePairFirstOnly(duplicatePairs) ==
    {duplicatePairs[k].positions[1] : k \in DOMAIN duplicatePairs}

\* inDuplicatePairOf gone wrong: Phase 3 is told of no flagged Position
inDuplicatePairNone(duplicatePairs) == {}

\* the Positions that inDuplicatePair.add(...) collects
inDuplicatePairOf(duplicatePairs) ==
    UNION {Range(duplicatePairs[k].positions) : k \in DOMAIN duplicatePairs}

\* phase3 gone wrong: existingIds.add(newId) is left out
RECURSIVE phase3WithoutAdd(_, _, _, _, _)
phase3WithoutAdd(stillUnassigned, inDuplicatePair, existingIds, k, minted) ==
    IF k > Len(stillUnassigned) THEN minted
    ELSE IF stillUnassigned[k].Position \in inDuplicatePair
    THEN phase3WithoutAdd(stillUnassigned, inDuplicatePair, existingIds, k + 1,
                          Append(minted, NoId))
    ELSE phase3WithoutAdd(stillUnassigned, inDuplicatePair, existingIds, k + 1,
             Append(minted, generateRunnerId(stillUnassigned[k].Name, existingIds,
                                             stillUnassigned[k].Club)))

\* Phase 3: the ids minted for stillUnassigned, in order; existingIds grows
\* with every mint.  minted[k] is NoId for a result left without an id.
RECURSIVE phase3(_, _, _, _, _)
phase3(stillUnassigned, inDuplicatePair, existingIds, k, minted) ==
    IF k > Len(stillUnassigned) THEN minted
    ELSE IF stillUnassigned[k].Position \in inDuplicatePair
    THEN phase3(stillUnassigned, inDuplicatePair, existingIds, k + 1,
                Append(minted, NoId))
    ELSE LET newId == generateRunnerId(stillUnassigned[k].Name, existingIds,
                                       stillUnassigned[k].Club)
         IN  phase3(stillUnassigned, inDuplicatePair, existingIds \cup {newId},
                    k + 1, Append(minted, newId))

\* the counter of stats for one kind of route
countOf(routes, kind) == Cardinality({k \in DOMAIN routes : routes[k].kind = kind})

\* the indices of the results that Phase 1 pushed to stillUnassigned
stillUnassignedIndices(routes) ==
    SelectSeq(Array([i \in DOMAIN routes |-> i]),
              LAMBDA i : routes[i].kind \in {"warn", "none"})

\* stillUnassigned as Phase 1 leaves it
stillUnassignedOf(targetYearResults, routes) ==
    Array([k \in DOMAIN stillUnassignedIndices(routes) |->
             targetYearResults[stillUnassignedIndices(routes)[k]]])

\* the id Phase 3 minted for result i, one of stillUnassigned (NoId for none)
mintedAt(routes, minted, i) ==
    minted[CHOOSE k \in DOMAIN stillUnassignedIndices(routes) :
               stillUnassignedIndices(routes)[k] = i]

\* the runner_id result i has when assignIdsToNewYear returns
runnerIdAfter(targetYearResults, routes, minted, i) ==
    IF routes[i].kind \in {"ledger", "auto"} THEN routes[i].runnerId
    ELSE IF routes[i].kind = "already" THEN targetYearResults[i].runner_id
    ELSE mintedAt(routes, minted, i)

\* stats.warnings: one warning for every result Phase 1 found uncertain,
\* warnIdx being the indices of these results
warningsAt(targetYearResults, routes, warnIdx, targetYear) ==
    Array([k \in DOMAIN warnIdx |->
             [result |-> [year |-> targetYear,
                          position |-> targetYearResults[warnIdx[k]].Position,
                          name |-> targetYearResults[warnIdx[k]].Name],
              suggested_id |-> routes[warnIdx[k]].runnerId,
              confidence |-> routes[warnIdx[k]].confidence]])

\* what assignIdsToNewYear returns once the three phases are done: the
\* results as the function leaves them (results), what Phase 1 did with every
\* result (routes), the id Phase 3 minted for it (minted, NoId for none), and
\* stats
afterPhase3(targetYearResults, routes, duplicatePairs, minted, targetYear) ==
    [results |-> Array([i \in DOMAIN targetYearResults |->
                    [targetYearResults[i] EXCEPT !.runner_id =
                        runnerIdAfter(targetYearResults, routes, minted, i)]]),
     routes |-> routes,
     minted |-> Array([i \in DOMAIN targetYearResults |->
                   IF routes[i].kind \in {"warn", "none"}
                   THEN mintedAt(routes, minted, i)
                   ELSE NoId]),
     stats |->
       [autoAssigned |-> countOf(routes, "auto"),
        nameChangeMatches |->
            Cardinality({i \in DOMAIN routes :
                            /\ routes[i].kind = "auto"
                            /\ routes[i].reason = "known_name_change"}),
        disambiguated |-> countOf(routes, "ledger"),
        newRunners |-> Cardinality({k \in DOMAIN minted : minted[k] # NoId}),
        needsReview |-> countOf(routes, "warn"),
        alreadyAssigned |-> countOf(routes, "already"),
        warnings |-> warningsAt(targetYearResults, routes,
                        SelectSeq(Array([i \in DOMAIN routes |-> i]),
                                  LAMBDA i : routes[i].kind = "warn"),
                        targetYear),
        duplicatesInNewYear |-> duplicatePairs]]

\* Phase 3 and the return, given the duplicatePairs of Phase 2
afterPhase2(targetYearResults, routes, duplicatePairs, existingIds, targetYear) ==
    afterPhase3(targetYearResults, routes, duplicatePairs,
                phase3(stillUnassignedOf(targetYearResults, routes),
                       inDuplicatePairOf(duplicatePairs), existingIds, 1, <<>>),
                targetYear)

\* Phases 2 and 3 and the return, given what Phase 1 did with every result
afterPhase1(targetYearResults, routes, existingIds, disambiguation, targetYear) ==
    afterPhase2(targetYearResults, routes,
                duplicatePairsOf(stillUnassignedOf(targetYearResults, routes),
                                 disambiguation),
                existingIds, targetYear)

assignIdsToNewYear(targetYearResults, runnerGroups, existingIds, nameChanges, disambiguation, targetYear, confidence) ==
    afterPhase1(targetYearResults,
        Array([i \in DOMAIN targetYearResults |->
                 phase1(targetYearResults[i], runnerGroups, nameChanges,
                        disambiguation, targetYear, confidence)]),
        existingIds, disambiguation, targetYear)

(***************************************************************************)
(* The archive the runs start from                                         *)
(***************************************************************************)
\* the years that have a result file, ascending (readdirSync(...).sort())
Years == <<2017, 2019, 2020, 2021, 2022, 2023, 2024, 2025>>

YearSet == Range(Years)

Results2017 ==
    << Result(1, JohnSmith, M35, NoClub, <<0, 40, 0>>, IdOf(JohnSmith)),
       Result(2, MaryKelly, NoCategory, NoClub, <<0, 30, 0>>, IdOf(MaryKelly)),
       Result(3, ChristopherGallagher, M40, NoClub, <<0, 24, 0>>,
              IdOf(ChristopherGallagher)) >>

Results2019 ==
    << Result(1, JohnSmith, M35, NoClub, <<0, 36, 0>>, IdOf(JohnSmith)) >>

Results2020 ==
    << Result(1, JohnSmith, M35, NoClub, <<0, 25, 0>>, IdOf(JohnSmith)) >>

Results2021 ==
    << Result(1, JohnSmith, M35, NoClub, <<0, 25, 0>>, IdOf(JohnSmith)) >>

Results2022 ==
    << Result(1, JohnSmith, M40, NoClub, <<0, 25, 0>>, IdOf(JohnSmith)) >>

\* John Smith is entered twice in 2023, both entries resolved to one runner
Results2023 ==
    << Result(1, JohnSmith, M40, NoClub, <<0, 25, 0>>, IdOf(JohnSmith)),
       Result(2, PatrickONeill, M45, NoClub, <<0, 27, 0>>, IdOf(PatrickONeill)),
       Result(3, ChristopherMontgomeryHall, M50, NoClub, <<0, 28, 0>>,
              IdOf(ChristopherMontgomeryHall)),
       Result(4, MaryKelly, F40, NoClub, <<0, 31, 0>>, IdOf(MaryKelly)),
       Result(5, JohnSmith, M40, NoClub, <<0, 25, 10>>, IdOf(JohnSmith)) >>

Results2025 ==
    << Result(1, JohnSmith, M45, NoClub, <<0, 26, 0>>, IdOf(JohnSmith)),
       Result(2, JonSmith, M40, NoClub, <<0, 25, 40>>, NoId) >>

\* the result files of the years before the new one, and of the year after
Archive ==
    [y \in YearSet |->
        IF y = 2017 THEN Results2017
        ELSE IF y = 2019 THEN Results2019
        ELSE IF y = 2020 THEN Results2020
        ELSE IF y = 2021 THEN Results2021
        ELSE IF y = 2022 THEN Results2022
        ELSE IF y = 2023 THEN Results2023
        ELSE IF y = 2025 THEN Results2025
        ELSE <<>>]

\* an archive whose only resolved entry is John Smith of 2023
ArchiveJohnSmith ==
    [y \in YearSet |->
        IF y = 2023
        THEN << Result(1, JohnSmith, M40, NoClub, <<0, 25, 0>>, IdOf(JohnSmith)) >>
        ELSE <<>>]

\* no data/name-changes.json: loadNameChanges returns {}
NoNameChanges == <<>>

\* data/name-changes.json
NameChanges == [id \in {IdOf(PatrickONeill)} |-> <<PatONeill>>]

Decision(position, name, runnerId) ==
    [position |-> position, name |-> name, runner_id |-> runnerId]

\* data/2024-disambiguation.json, when the reviewer has left one
Ledger2024 ==
    [year |-> 2024,
     decisions |-> << Decision(5, SeanMurphy, IdSeanMurphyBelfast),
                      Decision(12, PatONeill, IdOf(PatONeill)),
                      Decision(12, JohnSmyth, IdOf(JohnSmith)) >>]

\* the entries a new year's file is drawn from (Position is set on placing)
EntryPool ==
    { Result(0, JonSmith, M40, NoClub, <<0, 25, 30>>, NoId),
      Result(0, JohnSmith, M40, NoClub, <<0, 45, 0>>, NoId),
      Result(0, JohnSmith, F40, NoClub, <<0, 25, 30>>, NoId),
      Result(0, JohnSmyth, M40, NoClub, <<0, 25, 30>>, NoId),
      Result(0, SeanMurphy, M35, BelfastAC, NoTime, NoId),
      Result(0, ShaunMurphy, M35, NoClub, NoTime, NoId),
      Result(0, ChristoferGallaher, M45, NoClub, <<0, 24, 30>>, NoId),
      Result(0, ChristoferMontgomeryHall, M50, NoClub, <<0, 28, 30>>, NoId),
      Result(0, PatONeill, M45, NoClub, <<0, 27, 30>>, NoId),
      Result(0, PatONeill, M45, NoClub, <<0, 50, 0>>, NoId),
      Result(0, MaryKelly, M40, NoClub, <<0, 30, 30>>, NoId),
      Result(0, SeanMurphy, M35, BelfastAC, NoTime, IdOf(SeanMurphy)) }

\* largest number of entries of the new year's file
MaxEntries == 2

\* the Position of the i-th entry of the new year's file: 5, 12, 19, ...
PositionAt(i) == 5 + 7 * (i - 1)

\* the values of --confidence the operator uses, in percent
Confidences == {DEFAULT_AUTO_THRESHOLD}

NoWarnings ==
    [target_year |-> 0, uncertain_matches |-> <<>>,
     duplicates_in_new_year |-> <<>>,
     summary |-> [already_assigned |-> 0, auto_assigned |-> 0,
                  new_runners_created |-> 0, needs_review |-> 0]]

NoRun ==
    [year |-> 0, dryRun |-> FALSE, confidence |-> 0, before |-> <<>>,
     results |-> <<>>, routes |-> <<>>, minted |-> <<>>, report |-> NoWarnings,
     error |-> FALSE]

\* a result file whose text JSON.parse throws on: what stands for it is a
\* content no file that parses has, one row at Position 0
Unparseable == << Result(0, <<"{">>, <<>>, <<>>, <<>>, NoId) >>

\* generateRunnerId not called yet: newId is what the Matcher's returns,
\* reviewId what the review tool's returns
NoCall ==
    [called |-> FALSE, name |-> <<>>, existingIds |-> {}, club |-> <<>>,
     newId |-> NoId, reviewId |-> NoId]

\* no session yet
NoSession ==
    [pc |-> "idle", year |-> 0, stage |-> "none", i |-> 0, j |-> 0,
     warnings |-> NoWarnings, results |-> <<>>, decisions |-> <<>>,
     existingIds |-> {}, decisionsBeforeReview |-> 0, customId |-> <<>>,
     skipped |-> FALSE, prompted |-> <<>>, resultsLoaded |-> <<>>,
     loaded |-> <<>>, outcome |-> "none"]

\* processRunners not called yet
NoDatabase ==
    [processed |-> FALSE, rows |-> <<>>, allResults |-> <<>>, runners |-> <<>>,
     unassignedResults |-> <<>>]

(***************************************************************************)
(* State                                                                   *)
(***************************************************************************)
VARIABLES
    resultsFiles,    \* assets/results/YYYY.json, by year
    ledgerFiles,     \* data/YYYY-disambiguation.json, by year
    nameChangesFile, \* data/name-changes.json
    warningsFile,    \* assets/runner-database-warnings.json
    previewFile,     \* assets/runner-database-warnings.json.preview
    run,             \* the last run of the Matcher: its arguments, the target
                     \* year's results as it read them and as it left them in
                     \* memory, what it did with every result, and the
                     \* warnings object it wrote
    mintCall,        \* the last call of generateRunnerId made on its own: its
                     \* arguments and the id it returned
    review,          \* the session of the review tool: where it waits, what
                     \* it holds in memory, and how the last session ended
    database         \* the last call of processRunners made on its own: the
                     \* rows, the order they were read in, and what it returned

vars == <<resultsFiles, ledgerFiles, nameChangesFile, warningsFile, previewFile, run,
          mintCall, review, database>>

\* the new year's file: up to MaxEntries entries of the pool, in finishing order
NewYearFiles ==
    UNION {{[i \in 1..n |-> [pick[i] EXCEPT !.Position = PositionAt(i)]] :
               pick \in [1..n -> EntryPool]} : n \in 1..MaxEntries}

InitFrom(archive, nameChanges) ==
    /\ \E newYear \in NewYearFiles :
         resultsFiles = [archive EXCEPT ![2024] = newYear]
    /\ \E ledger \in {NoFile, Ledger2024} :
         ledgerFiles = [y \in YearSet |-> IF y = 2024 THEN ledger ELSE NoFile]
    /\ nameChangesFile = nameChanges
    /\ warningsFile = NoWarnings
    /\ previewFile = NoWarnings
    /\ run = NoRun
    /\ mintCall = NoCall
    /\ review = NoSession
    /\ database = NoDatabase

Init == InitFrom(Archive, NameChanges)

\* the archive of Scenario A, without a name-changes.json
InitJohnSmith == InitFrom(ArchiveJohnSmith, NoNameChanges)

\* writeResults: the warnings object
warningsOf(targetYear, stats) ==
    [target_year |-> targetYear,
     uncertain_matches |-> stats.warnings,
     duplicates_in_new_year |-> stats.duplicatesInNewYear,
     summary |-> [already_assigned |-> stats.alreadyAssigned,
                  auto_assigned |-> stats.autoAssigned,
                  new_runners_created |-> stats.newRunners,
                  needs_review |-> stats.needsReview
                                   + Len(stats.duplicatesInNewYear) * 2]]

\* what main computes for targetYear from the files as they are
Matcher(targetYear, confidence) ==
    LET reference == loadReferenceData(resultsFiles, Years, targetYear)
    IN  assignIdsToNewYear(resultsFiles[targetYear], reference,
                           reference.existingIds, nameChangesFile,
                           loadDisambiguation(ledgerFiles[targetYear], targetYear),
                           targetYear, confidence)

\* Main gone wrong: the result file is written on a dry run too
MainAlwaysWrites(targetYear, dryRun, confidence) ==
    LET out == Matcher(targetYear, confidence)
    IN  /\ resultsFiles' = [resultsFiles EXCEPT ![targetYear] = out.results]
        /\ warningsFile' = IF dryRun THEN warningsFile
                           ELSE warningsOf(targetYear, out.stats)
        /\ previewFile' = IF dryRun THEN warningsOf(targetYear, out.stats)
                          ELSE previewFile
        /\ run' = [year |-> targetYear, dryRun |-> dryRun,
                   confidence |-> confidence,
                   before |-> resultsFiles[targetYear],
                   results |-> out.results, routes |-> out.routes,
                   minted |-> out.minted,
                   report |-> warningsOf(targetYear, out.stats),
                   error |-> FALSE]
        /\ UNCHANGED <<ledgerFiles, nameChangesFile, mintCall, review, database>>

\* main when every file it reads parses
MainWrites(targetYear, dryRun, confidence) ==
    \E out \in {Matcher(targetYear, confidence)} :
        /\ resultsFiles' = IF dryRun THEN resultsFiles
                           ELSE [resultsFiles EXCEPT ![targetYear] = out.results]
        /\ warningsFile' = IF dryRun THEN warningsFile
                           ELSE warningsOf(targetYear, out.stats)
        /\ previewFile' = IF dryRun THEN warningsOf(targetYear, out.stats)
                          ELSE previewFile
        /\ run' = [year |-> targetYear, dryRun |-> dryRun,
                   confidence |-> confidence,
                   before |-> resultsFiles[targetYear],
                   results |-> out.results, routes |-> out.routes,
                   minted |-> out.minted,
                   report |-> warningsOf(targetYear, out.stats),
                   error |-> FALSE]
        /\ UNCHANGED <<ledgerFiles, nameChangesFile, mintCall, review, database>>

\* JSON.parse throws in loadReferenceData, which reads the files of the
\* years before targetYear, or in loadTargetYear
throwsOnLoad(files, targetYear) ==
    \E y \in YearSet : y <= targetYear /\ files[y] = Unparseable

\* catch (error) { console.error('Error:', error); process.exit(1); }
MainExits(targetYear, dryRun, confidence) ==
    /\ run' = [NoRun EXCEPT !.year = targetYear, !.dryRun = dryRun,
                            !.confidence = confidence, !.error = TRUE]
    /\ UNCHANGED <<resultsFiles, ledgerFiles, nameChangesFile, warningsFile,
                   previewFile, mintCall, review, database>>

\* Main gone wrong: a file that does not parse is read as it stands
MainWithoutThrow(targetYear, dryRun, confidence) ==
    MainWrites(targetYear, dryRun, confidence)

\* node assign-ids-to-new-year.js targetYear [--dry-run] [--confidence=c]
Main(targetYear, dryRun, confidence) ==
    IF throwsOnLoad(resultsFiles, targetYear)
    THEN MainExits(targetYear, dryRun, confidence)
    ELSE MainWrites(targetYear, dryRun, confidence)

\* the year the operator adds
TargetYears == {2024}

Next ==
    \E targetYear \in TargetYears, dryRun \in BOOLEAN, confidence \in Confidences :
        Main(targetYear, dryRun, confidence)

Spec == Init /\ [][Next]_vars

SpecJohnSmith == InitJohnSmith /\ [][Next]_vars

(***************************************************************************)
(* normalizeName and generateRunnerId of the review tool,                  *)
(* scripts/review-warnings.js                                              *)
(***************************************************************************)
\* the replace(...) chain of the tool's normalizeName, one character of the
\* lower-cased name
reviewAccentChar(c) ==
    IF c \in {"&aacute;", "&agrave;"} THEN "a"
    ELSE IF c \in {"&eacute;", "&egrave;"} THEN "e"
    ELSE IF c \in {"&iacute;"} THEN "i"
    ELSE IF c \in {"&oacute;", "&ouml;"} THEN "o"
    ELSE IF c \in {"&uacute;"} THEN "u"
    ELSE IF c \in {"&ntilde;"} THEN "n"
    ELSE IF c \in {"&ccedil;"} THEN "c"
    ELSE IF c \in {"&lsquo;", "&rsquo;"} THEN "'"
    ELSE c

\* normalizeName of the tool: what is left is a-z and 0-9
reviewNormalizeName(name) ==
    SelectSeq(Array([i \in DOMAIN name |-> reviewAccentChar(toLowerChar(name[i]))]),
              LAMBDA c : c \in LowerSet \/ c \in DigitSet)

\* slice(0, 10)
firstTen(s) == SubSeq(s, 1, Min2(10, Len(s)))

\* generateRunnerId of the tool once normalized and clubPart are computed
reviewRunnerIdFrom(existingIds, normalized, clubPart) ==
    IF normalized = <<>> THEN firstFreeCounter(UnknownRunner, existingIds, 1)
    ELSE IF clubPart # <<>>
    THEN IF (normalized \o <<"-">> \o clubPart) \notin existingIds
         THEN normalized \o <<"-">> \o clubPart
         ELSE firstFreeCounter(normalized \o <<"-">> \o clubPart \o <<"-">>,
                               existingIds, 2)
    ELSE IF normalized \notin existingIds THEN normalized
    ELSE firstFreeCounter(normalized \o <<"-">>, existingIds, 2)

\* generateRunnerId of the tool
reviewGenerateRunnerId(name, existingIds, club) ==
    reviewRunnerIdFrom(existingIds, reviewNormalizeName(name),
                       firstTen(reviewNormalizeName(club)))

(***************************************************************************)
(* generateRunnerId on its own: calls with a name, a club and a set of     *)
(* existing ids drawn from the ids the name can collide with               *)
(***************************************************************************)
\* largest counter among the existing ids
MaxCounter == 3

MintNames == {PaulONeill, JohnSmith, MaryKelly}

MintClubs == {NoClub, OmaghHarriers, BelfastAC}

\* the ids a call for name and club can find taken
CollidingIds(name, club) ==
    {slug(name), slug(name) \o <<"-">> \o beforeHyphen(slug(club))}
        \cup {slug(name) \o <<"-">> \o numberToString(k) : k \in 2..MaxCounter}

InitMint ==
    /\ resultsFiles = Archive
    /\ ledgerFiles = [y \in YearSet |-> NoFile]
    /\ nameChangesFile = NameChanges
    /\ warningsFile = NoWarnings
    /\ previewFile = NoWarnings
    /\ run = NoRun
    /\ mintCall = NoCall
    /\ review = NoSession
    /\ database = NoDatabase

\* const newId = generateRunnerId(name, existingIds, club), in the Matcher
\* and in the review tool
Mint(name, existingIds, club) ==
    /\ mintCall' = [called |-> TRUE, name |-> name, existingIds |-> existingIds,
                    club |-> club,
                    newId |-> generateRunnerId(name, existingIds, club),
                    reviewId |-> reviewGenerateRunnerId(name, existingIds, club)]
    /\ UNCHANGED <<resultsFiles, ledgerFiles, nameChangesFile, warningsFile,
                   previewFile, run, review, database>>

NextMint ==
    \E name \in MintNames, club \in MintClubs :
        \E existingIds \in SUBSET CollidingIds(name, club) :
            Mint(name, existingIds, club)

SpecMint == InitMint /\ [][NextMint]_vars

(***************************************************************************)
(* The review tool, scripts/review-warnings.js.  A session runs from the   *)
(* start of main to its end; it stops at every prompt, and an action is    *)
(* what the session does from one prompt to the next.                      *)
(***************************************************************************)
\* loadDisambiguation of the tool: the decisions of the ledger, [] without one
reviewLoadDisambiguation(ledgerFile, year) ==
    IF ledgerFile = NoFile THEN <<>>
    ELSE IF ledgerFile.year # year THEN <<>>
    ELSE ledgerFile.decisions

\* the keys of runnerDatabase.runners: runner-database.json as it was
\* generated from the archive before the new year was added
RunnerDatabaseIds ==
    UNION {{Archive[y][i].runner_id : i \in DOMAIN Archive[y]} : y \in YearSet}
        \ {NoId}

\* results.find(r => r.Position === position): its index, 0 for undefined
findByPosition(results, position) ==
    IF \E i \in DOMAIN results : results[i].Position = position
    THEN CHOOSE i \in DOMAIN results :
             /\ results[i].Position = position
             /\ \A h \in 1..(i - 1) : results[h].Position # position
    ELSE 0

\* sessionDecisions.has(position): the map is built from decisions and gets
\* every decision that is pushed
sessionDecisionsHas(decisions, position) ==
    \E k \in DOMAIN decisions : decisions[k].position = position

\* main: Apply existing disambiguations to results
RECURSIVE applyExisting(_, _, _)
applyExisting(results, existing, k) ==
    IF k > Len(existing) THEN results
    ELSE IF findByPosition(results, existing[k].position) # 0
            /\ results[findByPosition(results, existing[k].position)].Name
                   = existing[k].name
    THEN applyExisting(
             [results EXCEPT ![findByPosition(results, existing[k].position)]
                                  .runner_id = existing[k].runner_id],
             existing, k + 1)
    ELSE applyExisting(results, existing, k + 1)

\* main: the ids existingIds holds when the review starts
existingIdsAtStart(results, existing) ==
    ({results[i].runner_id : i \in DOMAIN results} \ {NoId})
        \cup RunnerDatabaseIds
        \cup {existing[k].runner_id :
                 k \in {h \in DOMAIN existing :
                           /\ findByPosition(results, existing[h].position) # 0
                           /\ results[findByPosition(results, existing[h].position)].Name
                                  = existing[h].name}}

\* the Position and the name of the warning the session is at
positionAt(s) ==
    IF s.stage = "uncertain" THEN s.warnings.uncertain_matches[s.i].result.position
    ELSE s.warnings.duplicates_in_new_year[s.i].positions[s.j]

nameAt(s) ==
    IF s.stage = "uncertain" THEN s.warnings.uncertain_matches[s.i].result.name
    ELSE s.warnings.duplicates_in_new_year[s.i].names[s.j]

\* reviewDuplicatesInNewYear from person j of duplicate i on, up to the next
\* prompt or the end of main
RECURSIVE nextDuplicate(_, _, _)
nextDuplicate(s, i, j) ==
    IF i > Len(s.warnings.duplicates_in_new_year) THEN [s EXCEPT !.pc = "end"]
    ELSE IF j > Len(s.warnings.duplicates_in_new_year[i].positions)
    THEN nextDuplicate(s, i + 1, 1)
    ELSE IF findByPosition(s.results,
                s.warnings.duplicates_in_new_year[i].positions[j]) = 0
    THEN nextDuplicate(s, i, j + 1)
    ELSE IF sessionDecisionsHas(s.decisions,
                s.warnings.duplicates_in_new_year[i].positions[j])
    THEN nextDuplicate(s, i, j + 1)
    ELSE [s EXCEPT !.pc = "action", !.stage = "duplicates", !.i = i, !.j = j,
                   !.prompted = Append(@,
                       s.warnings.duplicates_in_new_year[i].positions[j])]

\* nextUncertain, but a warning whose position has a decision is shown again
RECURSIVE nextUncertainPromptsAll(_, _)
nextUncertainPromptsAll(s, i) ==
    IF i > Len(s.warnings.uncertain_matches) THEN nextDuplicate(s, 1, 1)
    ELSE IF findByPosition(s.results,
                s.warnings.uncertain_matches[i].result.position) = 0
    THEN nextUncertainPromptsAll(s, i + 1)
    ELSE [s EXCEPT !.pc = "action", !.stage = "uncertain", !.i = i, !.j = 1,
                   !.prompted = Append(@,
                       s.warnings.uncertain_matches[i].result.position)]

\* reviewUncertainMatches from warning i on, up to the next prompt; with no
\* warning left the session goes on to reviewDuplicatesInNewYear
RECURSIVE nextUncertain(_, _)
nextUncertain(s, i) ==
    IF i > Len(s.warnings.uncertain_matches) THEN nextDuplicate(s, 1, 1)
    ELSE IF findByPosition(s.results,
                s.warnings.uncertain_matches[i].result.position) = 0
    THEN nextUncertain(s, i + 1)
    ELSE IF sessionDecisionsHas(s.decisions,
                s.warnings.uncertain_matches[i].result.position)
    THEN nextUncertain(s, i + 1)
    ELSE [s EXCEPT !.pc = "action", !.stage = "uncertain", !.i = i, !.j = 1,
                   !.prompted = Append(@,
                       s.warnings.uncertain_matches[i].result.position)]

\* the loop goes on after the warning the session is at
afterPrompt(s) ==
    IF s.stage = "uncertain" THEN nextUncertain(s, s.i + 1)
    ELSE nextDuplicate(s, s.i, s.j + 1)

\* result.runner_id = id; existingIds.add(id); decisions.push({...})
assign(s, id) ==
    [s EXCEPT !.results[findByPosition(s.results, positionAt(s))].runner_id = id,
              !.existingIds = @ \cup {id},
              !.decisions = Append(@, Decision(positionAt(s), nameAt(s), id))]

\* the session after the answer to the prompt 'Action: '; answer is trimmed
\* by prompt and lower-cased by the tests
answerAction(s, answer) ==
    IF answer = <<"s">> THEN [s EXCEPT !.skipped = TRUE, !.pc = "end"]
    ELSE IF s.stage = "uncertain" /\ answer = <<"y">>
    THEN afterPrompt(assign(s, s.warnings.uncertain_matches[s.i].suggested_id))
    ELSE IF answer = <<"n", "e", "w">>
    THEN afterPrompt(assign(s,
             reviewGenerateRunnerId(
                 s.results[findByPosition(s.results, positionAt(s))].Name,
                 s.existingIds,
                 s.results[findByPosition(s.results, positionAt(s))].Club)))
    ELSE IF answer # <<>> THEN [s EXCEPT !.pc = "confirm", !.customId = answer]
    ELSE afterPrompt(s)

\* the session after the answer to 'Use this runner? (y/n): ' or to
\* 'Use this ID anyway? (y/n): '
answerConfirm(s, answer) ==
    IF answer = <<"y">> THEN afterPrompt(assign(s, s.customId))
    ELSE afterPrompt(s)

\* main up to the first prompt
startSession(targetYear, warnings, results, existing) ==
    nextUncertain(
        [NoSession EXCEPT !.pc = "start", !.year = targetYear,
                          !.warnings = warnings,
                          !.results = applyExisting(results, existing, 1),
                          !.decisions = existing,
                          !.existingIds = existingIdsAtStart(results, existing),
                          !.decisionsBeforeReview = Len(existing),
                          !.resultsLoaded = results,
                          !.loaded = existing],
        1)

\* savesChanges, but a session that was skipped saves nothing
savesChangesUnlessSkipped(s) ==
    /\ Len(s.decisions) > 0
    /\ Len(s.decisions) - s.decisionsBeforeReview > 0
    /\ ~s.skipped

\* if (decisions.length > 0 && (newDecisions > 0 || userSkipped))
savesChanges(s) ==
    /\ Len(s.decisions) > 0
    /\ (Len(s.decisions) - s.decisionsBeforeReview > 0 \/ s.skipped)

\* the session reaches a prompt, or main reaches its end: saveResults and
\* saveDisambiguation if there is something to save
Settle(s) ==
    IF s.pc = "end"
    THEN /\ resultsFiles' = IF savesChanges(s)
                            THEN [resultsFiles EXCEPT ![s.year] = s.results]
                            ELSE resultsFiles
         /\ ledgerFiles' = IF savesChanges(s)
                           THEN [ledgerFiles EXCEPT ![s.year] =
                                    [year |-> s.year, decisions |-> s.decisions]]
                           ELSE ledgerFiles
         /\ review' = [s EXCEPT !.pc = "idle",
                                !.outcome = IF savesChanges(s) THEN "saved"
                                            ELSE "not_saved"]
    ELSE /\ review' = [s EXCEPT !.outcome = "running"]
         /\ UNCHANGED <<resultsFiles, ledgerFiles>>

\* node review-warnings.js targetYear, up to the first prompt; without a
\* warnings file, or with one of another year, the tool exits at once
StartReview(targetYear) ==
    /\ review.pc = "idle"
    /\ warningsFile # NoWarnings
    /\ warningsFile.target_year = targetYear
    /\ Settle(startSession(targetYear, warningsFile, resultsFiles[targetYear],
                           reviewLoadDisambiguation(ledgerFiles[targetYear],
                                                    targetYear)))
    /\ UNCHANGED <<nameChangesFile, warningsFile, previewFile, run, mintCall,
                   database>>

\* the reviewer answers the prompt 'Action: '
Answer(answer) ==
    /\ review.pc = "action"
    /\ Settle(answerAction(review, toLowerCase(trim(answer))))
    /\ UNCHANGED <<nameChangesFile, warningsFile, previewFile, run, mintCall,
                   database>>

\* the reviewer answers the prompt '... (y/n): '
Confirm(answer) ==
    /\ review.pc = "confirm"
    /\ Settle(answerConfirm(review, toLowerCase(trim(answer))))
    /\ UNCHANGED <<nameChangesFile, warningsFile, previewFile, run, mintCall,
                   database>>

\* the process is killed while it waits for an answer
Kill ==
    /\ review.pc \in {"action", "confirm"}
    /\ review' = [review EXCEPT !.pc = "idle", !.outcome = "killed"]
    /\ UNCHANGED <<resultsFiles, ledgerFiles, nameChangesFile, warningsFile,
                   previewFile, run, mintCall, database>>

\* the entries the new year's file of a review is drawn from
ReviewPool ==
    { Result(0, JohnSmyth, M40, NoClub, <<0, 25, 30>>, NoId),
      Result(0, JohnSmith, M40, NoClub, <<0, 45, 0>>, NoId),
      Result(0, ChristoferGallaher, M45, NoClub, <<0, 24, 30>>, NoId),
      Result(0, SeanMurphy, M35, BelfastAC, NoTime, NoId) }

ReviewFiles ==
    UNION {{[i \in 1..n |-> [pick[i] EXCEPT !.Position = PositionAt(i)]] :
               pick \in [1..n -> ReviewPool]} : n \in 1..MaxEntries}

\* what the reviewer types at 'Action: ' and at '... (y/n): '
Answers == {<<"s">>, <<"y">>, <<"n", "e", "w">>, <<>>, IdOf(JohnSmith)}

ConfirmAnswers == {<<"y">>, <<"n">>, <<"s">>}

InitReview ==
    /\ \E newYear \in ReviewFiles :
         resultsFiles = [Archive EXCEPT ![2024] = newYear]
    /\ ledgerFiles = [y \in YearSet |-> NoFile]
    /\ nameChangesFile = NameChanges
    /\ warningsFile = NoWarnings
    /\ previewFile = NoWarnings
    /\ run = NoRun
    /\ mintCall = NoCall
    /\ review = NoSession
    /\ database = NoDatabase

\* the operator runs the Matcher, reviews its warnings, runs it again, ...
NextReview ==
    \/ \E targetYear \in TargetYears, confidence \in Confidences :
           review.pc = "idle" /\ Main(targetYear, FALSE, confidence)
    \/ \E targetYear \in TargetYears : StartReview(targetYear)
    \/ \E answer \in Answers : Answer(answer)
    \/ \E answer \in ConfirmAnswers : Confirm(answer)
    \/ Kill

SpecReview == InitReview /\ [][NextReview]_vars

(***************************************************************************)
(* The runner database: processRunners folds the rows loadRaceResults      *)
(* built from the result files into one record per runner_id.  Null is     *)
(* the empty string.                                                       *)
(***************************************************************************)
\* processedResult; processRunners reads no position
Row(year, name, category, club, runnerId, canonicalName, canonicalClub) ==
    [year |-> year, name |-> name, category |-> category, club |-> club,
     runner_id |-> runnerId, canonical_name |-> canonicalName,
     canonical_club |-> canonicalClub]

\* Object.keys(counts): the truthy items of arr, each once, in the order in
\* which arr.forEach meets them first (no item is an integer index)
RECURSIVE countKeys(_, _, _)
countKeys(arr, k, keys) ==
    IF k > Len(arr) THEN keys
    ELSE IF arr[k] = <<>> \/ arr[k] \in Range(keys) THEN countKeys(arr, k + 1, keys)
    ELSE countKeys(arr, k + 1, Append(keys, arr[k]))

\* counts[item]
countsOf(arr, item) == Cardinality({i \in DOMAIN arr : arr[i] = item})

\* Object.keys(counts).reduce((a, b) => counts[a] > counts[b] ? a : b) from
\* key k on, a being the accumulator
RECURSIVE reduceCounts(_, _, _, _)
reduceCounts(arr, keys, k, a) ==
    IF k > Len(keys) THEN a
    ELSE reduceCounts(arr, keys, k + 1,
                      IF countsOf(arr, a) > countsOf(arr, keys[k]) THEN a ELSE keys[k])

mostCommonOf(arr, keys) ==
    IF keys = <<>> THEN <<>> ELSE reduceCounts(arr, keys, 2, keys[1])

mostCommon(arr) == mostCommonOf(arr, countKeys(arr, 1, <<>>))

\* runnerResults[runnerId]: the rows of the runner in the order read
groupOf(allResults, runnerId) ==
    LET ofRunner(r) == r.runner_id = runnerId
    IN  SelectSeq(allResults, ofRunner)

\* results.find(r => r.canonical_name): its index, 0 for undefined
findCanonicalName(results) ==
    IF \E i \in DOMAIN results : results[i].canonical_name
    THEN CHOOSE i \in DOMAIN results :
             /\ results[i].canonical_name
             /\ \A h \in 1..(i - 1) : ~results[h].canonical_name
    ELSE 0

\* results.find(r => r.canonical_club): its index, 0 for undefined
findCanonicalClub(results) ==
    IF \E i \in DOMAIN results : results[i].canonical_club
    THEN CHOOSE i \in DOMAIN results :
             /\ results[i].canonical_club
             /\ \A h \in 1..(i - 1) : ~results[h].canonical_club
    ELSE 0

\* x || 'Unknown'
OrUnknown(x) == IF x = <<>> THEN <<"U", "n", "k", "n", "o", "w", "n">> ELSE x

canonicalNameOf(results, found) ==
    IF found # 0 THEN results[found].name
    ELSE mostCommon([i \in DOMAIN results |-> results[i].name])

mostCommonClubOf(results, found) ==
    IF found # 0 THEN results[found].club
    ELSE mostCommon([i \in DOMAIN results |-> results[i].club])

\* results.map(r => getGender(r.category)); .filter(g => g) is the test
\* for truthy items in mostCommon
gendersOf(results) ==
    [i \in DOMAIN results |->
        IF getGender(results[i].category) = "" THEN <<>>
        ELSE <<getGender(results[i].category)>>]

\* [...new Set(results.map(r => r.year))].sort((a, b) => a - b)
yearsSorted(set) ==
    CHOOSE s \in [1..Cardinality(set) -> set] :
        \A i, j \in 1..Cardinality(set) : i < j => s[i] < s[j]

\* the years in the order in which the Set met them first
RECURSIVE yearsAsRead(_, _, _)
yearsAsRead(results, k, seen) ==
    IF k > Len(results) THEN seen
    ELSE IF results[k].year \in Range(seen) THEN yearsAsRead(results, k + 1, seen)
    ELSE yearsAsRead(results, k + 1, Append(seen, results[k].year))

yearsUnsorted(results) == yearsAsRead(results, 1, <<>>)

yearsOf(results) == yearsSorted({results[i].year : i \in DOMAIN results})

\* runners[runnerId] = {...}
runnerOf(runnerId, results, years) ==
    [runner_id |-> runnerId,
     canonical_name |-> OrUnknown(canonicalNameOf(results, findCanonicalName(results))),
     canonical_name_source |->
         IF findCanonicalName(results) # 0 THEN "manual" ELSE "automatic",
     gender |-> mostCommon(gendersOf(results)),
     most_common_club |-> mostCommonClubOf(results, findCanonicalClub(results)),
     most_common_club_source |->
         IF findCanonicalClub(results) # 0 THEN "manual" ELSE "automatic",
     years |-> years,
     total_races |-> Len(years)]

\* the object runners, by runner_id
processRunners(allResults) ==
    [runnerId \in {allResults[i].runner_id : i \in DOMAIN allResults} \ {NoId} |->
        runnerOf(runnerId, groupOf(allResults, runnerId),
                 yearsOf(groupOf(allResults, runnerId)))]

\* largest number of rows processRunners is given
MaxRows == 3

\* rows of two runners and one unassigned row: names and genders that tie,
\* one that has the majority, and two rows flagged as canonical
RowPool ==
    { Row(2022, JohnSmith, M40, NoClub, IdOf(JohnSmith), FALSE, FALSE),
      Row(2023, JonSmith, M40, NoClub, IdOf(JohnSmith), FALSE, FALSE),
      Row(2023, JohnSmith, F40, BelfastAC, IdOf(JohnSmith), FALSE, FALSE),
      Row(2024, JonSmith, M40, NoClub, IdOf(JohnSmith), TRUE, FALSE),
      Row(2024, JohnSmith, M40, BelfastAC, IdOf(JohnSmith), TRUE, TRUE),
      Row(2024, MaryKelly, F40, NoClub, IdOf(MaryKelly), FALSE, FALSE),
      Row(2024, JonSmith, M40, NoClub, NoId, FALSE, FALSE) }

\* the orders in which n rows can be read
Orders(n) == {order \in [1..n -> 1..n] : Range(order) = 1..n}

InitRows ==
    /\ resultsFiles = Archive
    /\ ledgerFiles = [y \in YearSet |-> NoFile]
    /\ nameChangesFile = NameChanges
    /\ warningsFile = NoWarnings
    /\ previewFile = NoWarnings
    /\ run = NoRun
    /\ mintCall = NoCall
    /\ review = NoSession
    /\ \E n \in 1..MaxRows : \E rows \in [1..n -> RowPool] :
           database = [NoDatabase EXCEPT !.rows = rows]

\* const { runners, unassignedResults } = processRunners(allResults), the
\* rows being read in some order
ProcessRunners(order) ==
    /\ \E allResults \in {[i \in DOMAIN order |-> database.rows[order[i]]]} :
           database' = [database EXCEPT
                            !.processed = TRUE,
                            !.allResults = allResults,
                            !.runners = processRunners(allResults),
                            !.unassignedResults = groupOf(allResults, NoId)]
    /\ UNCHANGED <<resultsFiles, ledgerFiles, nameChangesFile, warningsFile,
                   previewFile, run, mintCall, review>>

NextRows == \E order \in Orders(Len(database.rows)) : ProcessRunners(order)

SpecRows == InitRows /\ [][NextRows]_vars

(***************************************************************************)
(* New years with blank names: the empty name, white space, a name that    *)
(* normalizeName and the slug both empty, and one only the slug empties    *)
(***************************************************************************)
BlankNames == {<<>>, <<" ", " ">>, <<"-">>, <<"?">>}

BlankPool ==
    { Result(0, <<>>, M40, NoClub, <<0, 25, 30>>, NoId),
      Result(0, <<>>, F40, NoClub, NoTime, NoId),
      Result(0, <<" ", " ">>, M35, NoClub, NoTime, NoId),
      Result(0, <<"-">>, NoCategory, BelfastAC, NoTime, NoId),
      Result(0, <<"?">>, M45, NoClub, <<0, 24, 30>>, NoId),
      Result(0, JohnSmith, M40, NoClub, <<0, 45, 0>>, NoId),
      Result(0, MaryKelly, F40, NoClub, <<0, 31, 30>>, NoId) }

BlankFiles ==
    UNION {{[i \in 1..n |-> [pick[i] EXCEPT !.Position = PositionAt(i)]] :
               pick \in [1..n -> BlankPool]} : n \in 1..MaxEntries}

\* the archive after a year in which a blank name was minted unknown-runner-1
ArchiveUnknown ==
    [Archive EXCEPT ![2023] =
        Append(@, Result(6, <<>>, M40, NoClub, <<0, 26, 0>>,
                         UnknownRunner \o <<"1">>))]

InitBlank ==
    /\ \E archive \in {Archive, ArchiveUnknown}, newYear \in BlankFiles :
         resultsFiles = [archive EXCEPT ![2024] = newYear]
    /\ ledgerFiles = [y \in YearSet |-> NoFile]
    /\ nameChangesFile = NameChanges
    /\ warningsFile = NoWarnings
    /\ previewFile = NoWarnings
    /\ run = NoRun
    /\ mintCall = NoCall
    /\ review = NoSession
    /\ database = NoDatabase

SpecBlank == InitBlank /\ [][Next]_vars

(***************************************************************************)
(* Archives in which some result files do not parse                        *)
(***************************************************************************)
\* the years whose file may be the one that does not parse
DamagedYears == {2017, 2023, 2024, 2025}

InitDamaged ==
    /\ \E newYear \in ReviewFiles, damaged \in SUBSET DamagedYears :
         resultsFiles = [y \in YearSet |->
                            IF y \in damaged THEN Unparseable
                            ELSE IF y = 2024 THEN newYear
                            ELSE Archive[y]]
    /\ ledgerFiles = [y \in YearSet |-> NoFile]
    /\ nameChangesFile = NameChanges
    /\ warningsFile = NoWarnings
    /\ previewFile = NoWarnings
    /\ run = NoRun
    /\ mintCall = NoCall
    /\ review = NoSession
    /\ database = NoDatabase

SpecDamaged == InitDamaged /\ [][Next]_vars

(***************************************************************************)
(* New years with the names of name-changes.json: an archive in which      *)
(* another runner ran as Pat O'Neill, and a table with a second runner      *)
(***************************************************************************)
MaryByrne ==
    <<"M","a","r","y"," ","B","y","r","n","e">>

\* data/name-changes.json with the married name of Mary Kelly
NameChangesAlias ==
    [id \in {IdOf(PatrickONeill), IdOf(MaryKelly)} |->
        IF id = IdOf(PatrickONeill) THEN <<PatONeill>> ELSE <<MaryByrne>>]

\* the archive with a Pat O'Neill of 2022 who is not Patrick O'Neill
ArchiveAlias ==
    [Archive EXCEPT ![2022] =
        Append(@, Result(2, PatONeill, M45, NoClub, <<0, 27, 0>>, IdOf(PatONeill)))]

AliasPool ==
    { Result(0, PatONeill, M45, NoClub, <<0, 27, 30>>, NoId),
      Result(0, PatONeill, M45, NoClub, <<0, 50, 0>>, NoId),
      Result(0, PatONeill, F40, NoClub, NoTime, NoId),
      Result(0, MaryByrne, F40, NoClub, <<0, 31, 30>>, NoId),
      Result(0, MaryByrne, M40, NoClub, <<0, 30, 30>>, NoId),
      Result(0, JohnSmith, M40, NoClub, <<0, 45, 0>>, NoId) }

AliasFiles ==
    UNION {{[i \in 1..n |-> [pick[i] EXCEPT !.Position = PositionAt(i)]] :
               pick \in [1..n -> AliasPool]} : n \in 1..MaxEntries}

InitAlias ==
    /\ \E archive \in {Archive, ArchiveAlias}, newYear \in AliasFiles :
         resultsFiles = [archive EXCEPT ![2024] = newYear]
    /\ ledgerFiles = [y \in YearSet |-> NoFile]
    /\ nameChangesFile = NameChangesAlias
    /\ warningsFile = NoWarnings
    /\ previewFile = NoWarnings
    /\ run = NoRun
    /\ mintCall = NoCall
    /\ review = NoSession
    /\ database = NoDatabase

SpecAlias == InitAlias /\ [][Next]_vars

(***************************************************************************)
(* New years against runners with several names and against namesakes: an  *)
(* archive in which Christopher Gallagher also ran as Khristofer Gallaher  *)
(* and Sean Murphy is written with the fada, and two archives with a       *)
(* second John Smith, met after the first or before him                    *)
(***************************************************************************)
\* the runner_id of the second John Smith
JohnSmith2 == IdOf(JohnSmith) \o <<"-", "2">>

ArchiveVariants ==
    [Archive EXCEPT
        ![2021] = Append(@, Result(2, KhristoferGallaher, M40, NoClub, <<0, 24, 10>>,
                                   IdOf(ChristopherGallagher))),
        ![2022] = Append(@, Result(2, SeanFadaMurphy, M35, NoClub, <<0, 23, 0>>,
                                   IdOf(SeanMurphy)))]

\* the second John Smith ran first in 2021: john-smith is met first
ArchiveNamesake ==
    [Archive EXCEPT
        ![2021] = Append(@, Result(2, JohnSmith, M40, NoClub, <<0, 25, 20>>,
                                   JohnSmith2))]

\* the second John Smith heads the file of 2017: john-smith-2 is met first
ArchiveNamesakeFirst ==
    [Archive EXCEPT
        ![2017] = << Result(0, JohnSmith, M40, NoClub, <<0, 25, 20>>, JohnSmith2) >>
                      \o @]

VariantPool ==
    { Result(0, ChristoferGallaher, M45, NoClub, <<0, 24, 30>>, NoId),
      Result(0, SeanMurphy, M35, NoClub, NoTime, NoId),
      Result(0, JohnSmith, M40, NoClub, <<0, 25, 30>>, NoId),
      Result(0, JohnSmyth, M40, NoClub, <<0, 25, 30>>, NoId),
      Result(0, MaryKelly, F40, NoClub, <<0, 31, 30>>, NoId) }

VariantFiles ==
    UNION {{[i \in 1..n |-> [pick[i] EXCEPT !.Position = PositionAt(i)]] :
               pick \in [1..n -> VariantPool]} : n \in 1..MaxEntries}

InitVariants ==
    /\ \E archive \in {ArchiveVariants, ArchiveNamesake, ArchiveNamesakeFirst},
          newYear \in VariantFiles :
         resultsFiles = [archive EXCEPT ![2024] = newYear]
    /\ ledgerFiles = [y \in YearSet |-> NoFile]
    /\ nameChangesFile = NameChanges
    /\ warningsFile = NoWarnings
    /\ previewFile = NoWarnings
    /\ run = NoRun
    /\ mintCall = NoCall
    /\ review = NoSession
    /\ database = NoDatabase

SpecVariants == InitVariants /\ [][Next]_vars

(***************************************************************************)
(* Reviews of a year whose file was edited after a decision was recorded:  *)
(* the ledger holds a decision for Position 5 under the name the entry had  *)
(* before the edit                                                         *)
(***************************************************************************)
LedgerEdited ==
    [year |-> 2024,
     decisions |-> << Decision(5, JonSmith, IdOf(JohnSmith)) >>]

InitEdited ==
    /\ \E newYear \in ReviewFiles :
         resultsFiles = [Archive EXCEPT ![2024] = newYear]
    /\ \E ledger \in {NoFile, LedgerEdited} :
         ledgerFiles = [y \in YearSet |-> IF y = 2024 THEN ledger ELSE NoFile]
    /\ nameChangesFile = NameChanges
    /\ warningsFile = NoWarnings
    /\ previewFile = NoWarnings
    /\ run = NoRun
    /\ mintCall = NoCall
    /\ review = NoSession
    /\ database = NoDatabase

SpecEdited == InitEdited /\ [][NextReview]_vars

(***************************************************************************)
(* assign-runner-ids.js: the script that assigns runner_ids over the whole *)
(* archive.  It has its own normalizeName and generateRunnerId, without    *)
(* normalizeAccents, and its own findBestMatch.                            *)
(***************************************************************************)
\* name.toLowerCase().trim().replace(/\s+/g, '').replace(/[.,\/#...]/g, '')
archiveNormalizeName(name) ==
    SelectSeq(trim(toLowerCase(name)),
              LAMBDA c : ~IsSpace(c) /\ c \notin NamePunctuation)

archiveSimilarity(name1, name2) ==
    similarityOfNormalized(archiveNormalizeName(name1), archiveNormalizeName(name2))

\* x.toLowerCase().trim().replace(/[^a-z0-9\s]/g, '').replace(/\s+/g, '-')
archiveSlug(x) ==
    hyphenate(SelectSeq(trim(toLowerCase(x)),
                        LAMBDA c : c \in LowerSet \/ c \in DigitSet \/ IsSpace(c)))

archiveGenerateRunnerId(name, existingIds, club) ==
    runnerIdFrom(name, existingIds, club, archiveSlug(name),
                 beforeHyphen(archiveSlug(club)))

\* the key year-Position of a result with its year
keyOf(r) == <<r.year, r.result.Position>>

\* categorizeResults: the results of all years, by ascending year, with the
\* year; runnerGroups in the order its keys are created; unassignedResults
categorizeResults(yearFiles) ==
    LET perYear == Array([k \in DOMAIN Years |->
                      Array([i \in DOMAIN yearFiles[Years[k]] |->
                              [result |-> yearFiles[Years[k]][i],
                               year |-> Years[k]]])])
        tagged == SelectSeq(Concat(perYear, 1),
                            LAMBDA r : r.result.runner_id # NoId)
        ids == Distinct(Array([i \in DOMAIN tagged |-> tagged[i].result.runner_id]),
                        1, <<>>)
    IN  [order |-> ids,
         groups |-> Array([k \in DOMAIN ids |->
                       SelectSeq(tagged, LAMBDA r : r.result.runner_id = ids[k])]),
         unassignedResults |-> SelectSeq(Concat(perYear, 1),
                                         LAMBDA r : r.result.runner_id = NoId),
         existingIds |-> Range(ids)]

\* the time loop of findBestMatch: every result of the group
archiveTimeConsistent(result, group) ==
    \A g \in DOMAIN group :
        isReasonableTimeVariance(group[g].result.ChipTime, result.ChipTime)

\* the body of the loop of findBestMatch for one runner: the similarity to
\* the name of sampleResult = group[0], Zero when a test makes it continue
archiveGated(result, group, sim) ==
    IF ~SimAtLeast(sim, WARNING_THRESHOLD) THEN Zero
    ELSE IF ~firstNameMatches(result.Name, group[1].result.Name) THEN Zero
    ELSE IF genderConflict(getGender(result.Category),
                           getGender(group[1].result.Category)) THEN Zero
    ELSE IF ~archiveTimeConsistent(result, group) THEN Zero
    ELSE sim

archiveNoMatch == [runnerId |-> NoId, confidence |-> Zero]

\* if (similarity > bestScore) { bestScore = ...; bestMatch = {...} }
archiveBetterMatch(bestMatch, runnerId, score) ==
    IF SimGT(score, bestMatch.confidence)
    THEN [runnerId |-> runnerId, confidence |-> score]
    ELSE bestMatch

RECURSIVE archiveFindBestMatchFrom(_, _, _, _, _)
archiveFindBestMatchFrom(result, order, groups, k, bestMatch) ==
    IF k > Len(order) THEN bestMatch
    ELSE archiveFindBestMatchFrom(result, order, groups, k + 1,
             archiveBetterMatch(bestMatch, order[k],
                 archiveGated(result, groups[k],
                     archiveSimilarity(result.Name, groups[k][1].result.Name))))

archiveFindBestMatch(result, order, groups) ==
    archiveFindBestMatchFrom(result, order, groups, 1, archiveNoMatch)

\* Phase 1, one unassigned result r with its match
archivePhase1Step(st, r, match, confidence) ==
    IF match.runnerId # NoId /\ SimAtLeast(match.confidence, confidence)
    THEN [st EXCEPT !.groups[IndexOf(match.runnerId, st.order)] =
                        Append(@, [r EXCEPT !.result.runner_id = match.runnerId]),
                    !.assignments = Append(@, [key |-> keyOf(r),
                                               runner_id |-> match.runnerId]),
                    !.autoAssigned = @ + 1]
    ELSE IF match.runnerId # NoId /\ SimAtLeast(match.confidence, WARNING_THRESHOLD)
    THEN [st EXCEPT !.warnings = Append(@,
                        [result |-> [year |-> r.year, position |-> r.result.Position,
                                     name |-> r.result.Name],
                         suggested_id |-> match.runnerId,
                         confidence |-> match.confidence]),
                    !.stillUnassigned = Append(@, r)]
    ELSE [st EXCEPT !.stillUnassigned = Append(@, r)]

\* Phase 1: Match unassigned to existing groups
RECURSIVE archivePhase1(_, _, _, _)
archivePhase1(st, unassignedResults, k, confidence) ==
    IF k > Len(unassignedResults) THEN st
    ELSE archivePhase1(
             archivePhase1Step(st, unassignedResults[k],
                 archiveFindBestMatch(unassignedResults[k].result, st.order,
                                      st.groups),
                 confidence),
             unassignedResults, k + 1, confidence)

\* the test of Phase 2 on stillUnassigned[i] and stillUnassigned[j]
sameNewRunner(r1, r2, confidence) ==
    /\ SimAtLeast(archiveSimilarity(r1.result.Name, r2.result.Name), confidence)
    /\ firstNameMatches(r1.result.Name, r2.result.Name)
    /\ ~genderConflict(getGender(r1.result.Category), getGender(r2.result.Category))

\* the j > i, not used, that join the group of stillUnassigned[i]
joining(stillUnassigned, i, used, confidence) ==
    {j \in (i + 1)..Len(stillUnassigned) :
        /\ j \notin used
        /\ sameNewRunner(stillUnassigned[i], stillUnassigned[j], confidence)}

\* Phase 2: Match unassigned to each other; grouped holds the index groups
RECURSIVE archivePhase2(_, _, _, _, _)
archivePhase2(stillUnassigned, i, used, grouped, confidence) ==
    IF i > Len(stillUnassigned) THEN grouped
    ELSE IF i \in used
    THEN archivePhase2(stillUnassigned, i + 1, used, grouped, confidence)
    ELSE archivePhase2(stillUnassigned, i + 1,
             used \cup {i} \cup joining(stillUnassigned, i, used, confidence),
             Append(grouped,
                 SelectSeq(Array([j \in DOMAIN stillUnassigned |-> j]),
                     LAMBDA j : j = i \/ j \in joining(stillUnassigned, i, used,
                                                       confidence))),
             confidence)

\* Phase 3, one group with its new id
archivePhase3Step(st, group, newId) ==
    [st EXCEPT !.existingIds = @ \cup {newId},
               !.order = Append(@, newId),
               !.groups = Append(@, Array([g \in DOMAIN group |->
                              [group[g] EXCEPT !.result.runner_id = newId]])),
               !.assignments = @ \o Array([g \in DOMAIN group |->
                                   [key |-> keyOf(group[g]), runner_id |-> newId]]),
               !.newRunners = @ + 1]

\* Phase 3: Assign new IDs to groups
RECURSIVE archivePhase3(_, _, _)
archivePhase3(st, grouped, k) ==
    IF k > Len(grouped) THEN st
    ELSE archivePhase3(
             archivePhase3Step(st,
                 Array([g \in DOMAIN grouped[k] |-> st.stillUnassigned[grouped[k][g]]]),
                 archiveGenerateRunnerId(
                     st.stillUnassigned[grouped[k][1]].result.Name,
                     st.existingIds,
                     st.stillUnassigned[grouped[k][1]].result.Club)),
             grouped, k + 1)

\* the test of Phase 4 on the runners i < j of runnerIds
potentialDuplicate(st, i, j) ==
    /\ ~(st.order[i] \in st.preExistingIds /\ st.order[j] \in st.preExistingIds)
    /\ SimAtLeast(archiveSimilarity(st.groups[i][1].result.Name,
                                    st.groups[j][1].result.Name),
                  DUPLICATE_THRESHOLD)
    /\ archiveSimilarity(st.groups[i][1].result.Name,
                         st.groups[j][1].result.Name) # One
    /\ firstNameMatches(st.groups[i][1].result.Name, st.groups[j][1].result.Name)
    /\ ~genderConflict(getGender(st.groups[i][1].result.Category),
                       getGender(st.groups[j][1].result.Category))

participationsOf(group) ==
    Array([g \in DOMAIN group |->
        [year |-> group[g].year, position |-> group[g].result.Position,
         name |-> group[g].result.Name, category |-> group[g].result.Category,
         club |-> group[g].result.Club, time |-> group[g].result.ChipTime]])

\* potentialDuplicates.push({...})
potentialDuplicateOf(st, i, j) ==
    [runner_ids |-> <<st.order[i], st.order[j]>>,
     names |-> <<st.groups[i][1].result.Name, st.groups[j][1].result.Name>>,
     participations |-> <<participationsOf(st.groups[i]),
                          participationsOf(st.groups[j])>>,
     similarity |-> archiveSimilarity(st.groups[i][1].result.Name,
                                      st.groups[j][1].result.Name)]

\* Phase 4: Detect potential duplicates among assigned runners
archivePhase4(st) ==
    LET hits == SelectSeq(pairsFrom(Len(st.order), 1, 2),
                          LAMBDA p : potentialDuplicate(st, p[1], p[2]))
    IN  [st EXCEPT
            !.potentialDuplicates =
                Array([k \in DOMAIN hits |->
                         potentialDuplicateOf(st, hits[k][1], hits[k][2])]),
            !.duplicateResultKeys =
                UNION {{keyOf(st.groups[hits[k][h]][g]) :
                           g \in DOMAIN st.groups[hits[k][h]]} :
                          k \in DOMAIN hits, h \in {1, 2}}]

\* the stats before Phase 1
archiveStart(categorized) ==
    [order |-> categorized.order, groups |-> categorized.groups,
     existingIds |-> categorized.existingIds,
     preExistingIds |-> categorized.existingIds,
     assignments |-> <<>>, autoAssigned |-> 0, warnings |-> <<>>,
     newRunners |-> 0, stillUnassigned |-> <<>>,
     alreadyAssigned |-> Len(Concat(categorized.groups, 1)),
     potentialDuplicates |-> <<>>, duplicateResultKeys |-> {}]

archiveAfterPhase1(st, confidence) ==
    archivePhase3(st, archivePhase2(st.stillUnassigned, 1, {}, <<>>, confidence), 1)

assignRunnerIds(yearFiles, confidence) ==
    archivePhase4(
        archiveAfterPhase1(
            archivePhase1(archiveStart(categorizeResults(yearFiles)),
                          categorizeResults(yearFiles).unassignedResults, 1,
                          confidence),
            confidence))

\* assignments.get(key): the value the Map holds after all its set(key, ...)
assignmentFor(assignments, key) ==
    assignments[CHOOSE k \in DOMAIN assignments :
                    /\ assignments[k].key = key
                    /\ \A h \in DOMAIN assignments :
                           assignments[h].key = key => h <= k].runner_id

\* writeResults, one result of the file of year
writtenResult(stats, year, result) ==
    IF <<year, result.Position>> \in stats.duplicateResultKeys
    THEN [result EXCEPT !.runner_id = NoId]
    ELSE IF \E k \in DOMAIN stats.assignments :
                stats.assignments[k].key = <<year, result.Position>>
    THEN [result EXCEPT !.runner_id =
              assignmentFor(stats.assignments, <<year, result.Position>>)]
    ELSE result

\* writeResults: the yearly files
writtenFiles(yearFiles, stats) ==
    [y \in DOMAIN yearFiles |->
        Array([i \in DOMAIN yearFiles[y] |-> writtenResult(stats, y, yearFiles[y][i])])]

\* the results counted as written and as skipped
countWritten(files, stats, skipped) ==
    Len(SelectSeq(
        Concat(Array([k \in DOMAIN Years |->
                  Array([i \in DOMAIN files[Years[k]] |->
                      [result |-> files[Years[k]][i], year |-> Years[k]]])]), 1),
        LAMBDA r : IF skipped THEN keyOf(r) \in stats.duplicateResultKeys
                   ELSE /\ keyOf(r) \notin stats.duplicateResultKeys
                        /\ r.result.runner_id # NoId))

\* writeResults: the warnings object, of the dry run and of the run
archiveWarnings(stats, written, dryRun) ==
    IF dryRun
    THEN [potential_duplicates |-> stats.potentialDuplicates,
          uncertain_assignments |-> stats.warnings,
          summary |-> [auto_assigned |-> stats.autoAssigned,
                       new_runners |-> stats.newRunners,
                       already_assigned |-> stats.alreadyAssigned,
                       needs_review |-> Len(stats.warnings),
                       potential_duplicates |-> Len(stats.potentialDuplicates)]]
    ELSE [potential_duplicates |-> stats.potentialDuplicates,
          uncertain_assignments |-> stats.warnings,
          summary |-> [auto_assigned |-> stats.autoAssigned,
                       new_runners |-> stats.newRunners,
                       already_assigned |-> stats.alreadyAssigned,
                       needs_review |-> Len(stats.warnings),
                       potential_duplicates |-> Len(stats.potentialDuplicates),
                       written_to_files |-> countWritten(written, stats, FALSE),
                       awaiting_manual_review |-> countWritten(written, stats, TRUE)]]

\* main once assignRunnerIds has returned stats
archiveWrite(stats, dryRun) ==
    /\ resultsFiles' = IF dryRun THEN resultsFiles
                       ELSE writtenFiles(resultsFiles, stats)
    /\ warningsFile' = archiveWarnings(stats, writtenFiles(resultsFiles, stats),
                                       dryRun)

\* node assign-runner-ids.js [--dry-run] [--confidence=...]
AssignRunnerIds(dryRun, confidence) ==
    /\ archiveWrite(assignRunnerIds(resultsFiles, confidence), dryRun)
    /\ UNCHANGED <<ledgerFiles, nameChangesFile, previewFile, run, mintCall, review,
                   database>>

\* the entries the files of an archive without ledger are drawn from
ArchivePool ==
    { Result(0, JohnSmith, M40, NoClub, <<0, 25, 0>>, IdOf(JohnSmith)),
      Result(0, JohnSmith, M40, NoClub, <<0, 25, 30>>, NoId),
      Result(0, JohnSmyth, M40, NoClub, <<0, 25, 30>>, NoId),
      Result(0, SeanMurphy, M35, BelfastAC, NoTime, NoId),
      Result(0, MaryKelly, F40, NoClub, <<0, 31, 0>>, IdOf(MaryKelly)) }

ArchiveFiles ==
    UNION {{[i \in 1..n |-> [pick[i] EXCEPT !.Position = PositionAt(i)]] :
               pick \in [1..n -> ArchivePool]} : n \in 1..MaxEntries}

\* the archive holds the files of 2023 and of 2024
InitArchive ==
    /\ \E file2023 \in ArchiveFiles, file2024 \in ArchiveFiles :
         resultsFiles = [y \in YearSet |-> IF y = 2023 THEN file2023
                                           ELSE IF y = 2024 THEN file2024
                                           ELSE <<>>]
    /\ ledgerFiles = [y \in YearSet |-> NoFile]
    /\ nameChangesFile = NoNameChanges
    /\ warningsFile = NoWarnings
    /\ previewFile = NoWarnings
    /\ run = NoRun
    /\ mintCall = NoCall
    /\ review = NoSession
    /\ database = NoDatabase

NextArchive ==
    \E dryRun \in BOOLEAN, confidence \in Confidences :
        AssignRunnerIds(dryRun, confidence)

SpecArchive == InitArchive /\ [][NextArchive]_vars

(***************************************************************************)
(* What a run is about.  The Matcher never writes the ledger, so the       *)
(* ledger of the state is the ledger the last run read.                    *)
(***************************************************************************)
Ran == run.year # 0

\* the decisions of the target year's ledger, in file order
Decisions == ledgerFiles[run.year].decisions

DecisionFor(k, result) ==
    /\ Decisions[k].position = result.Position
    /\ Decisions[k].name = result.Name

HasDecision(result) == \E k \in DOMAIN Decisions : DecisionFor(k, result)

Unassigned(i) == run.before[i].runner_id = NoId

\* an uncertain-match warning of the report for result i
WarningsFor(i) ==
    {k \in DOMAIN run.report.uncertain_matches :
        /\ run.report.uncertain_matches[k].result.position = run.before[i].Position
        /\ run.report.uncertain_matches[k].result.name = run.before[i].Name}

\* the Positions named by the duplicates_in_new_year pairs of the report
FlaggedPositions ==
    UNION {Range(run.report.duplicates_in_new_year[k].positions) :
              k \in DOMAIN run.report.duplicates_in_new_year}

\* the resolved results of runnerId in the years before year, oldest first
HistoryOf(runnerId, year) ==
    LET perYear == [k \in DOMAIN Years |->
                      IF Years[k] < year
                      THEN [i \in DOMAIN resultsFiles[Years[k]] |->
                              [result |-> resultsFiles[Years[k]][i],
                               year |-> Years[k]]]
                      ELSE <<>>]
    IN  SelectSeq(Concat(perYear, 1), LAMBDA r : r.result.runner_id = runnerId)

KnownGender(category) == getGender(category) \in {"M", "F"}

GendersDiffer(category1, category2) ==
    /\ KnownGender(category1)
    /\ KnownGender(category2)
    /\ getGender(category1) # getGender(category2)

\* the entry at a Position of the target year's file
EntryAt(position) ==
    run.before[CHOOSE i \in DOMAIN run.before : run.before[i].Position = position]

(***************************************************************************)
(* C1  Ledger precedence                                                   *)
(***************************************************************************)
\* C1 as stated: after a Matcher run, every entry of the target year whose
\* (Position, Name) is that of a decision of the year's ledger carries the
\* decision's runner_id, whether or not it carried a runner_id before.
C1_LedgerPrecedence ==
    Ran => \A i \in DOMAIN run.results : \A k \in DOMAIN Decisions :
               DecisionFor(k, run.before[i])
                   => run.results[i].runner_id = Decisions[k].runner_id

\* C1 as amended: after a Matcher run, every entry of the target year that
\* carried no runner_id when the run started and whose (Position, Name) is
\* that of a decision of the year's ledger carries the runner_id of that
\* decision (of the last one, if the ledger repeats the key), whatever the
\* alias table or the history suggests.
C1_LedgerPrecedenceForUnassigned ==
    Ran => \A i \in DOMAIN run.results : \A k \in DOMAIN Decisions :
               ( /\ Unassigned(i)
                 /\ DecisionFor(k, run.before[i])
                 /\ \A later \in DOMAIN Decisions :
                        DecisionFor(later, run.before[i]) => later <= k )
                   => run.results[i].runner_id = Decisions[k].runner_id

\* a run gave Pat O'Neill of position 12, 0:27:30, the ledger's pat-oneill,
\* where the alias table has patrick-oneill for him
C1_Witness ==
    /\ Ran
    /\ \E i \in DOMAIN run.before :
          /\ Unassigned(i)
          /\ run.before[i].Name = PatONeill
          /\ run.before[i].ChipTime = <<0, 27, 30>>
          /\ HasDecision(run.before[i])
          /\ run.results[i].runner_id = IdOf(PatONeill)

(***************************************************************************)
(* C2  The warning band                                                    *)
(***************************************************************************)
\* C2: an entry without a ledger decision whose best gated similarity is at
\* least the warning threshold and below the auto-assign threshold gets an
\* uncertain-match warning with the suggested runner_id and the confidence,
\* and carries no runner_id at the end of the run.
C2_WarnBandLeftUnresolved ==
    Ran => \A i \in DOMAIN run.results :
               ( /\ Unassigned(i)
                 /\ ~HasDecision(run.before[i])
                 /\ run.routes[i].kind = "warn" )
                   => /\ \E k \in WarningsFor(i) :
                            /\ run.report.uncertain_matches[k].suggested_id
                                   = run.routes[i].runnerId
                            /\ run.report.uncertain_matches[k].confidence
                                   = run.routes[i].confidence
                      /\ run.results[i].runner_id = NoId

(***************************************************************************)
(* C3  A runner_id once written stays                                      *)
(***************************************************************************)
\* C3: a Matcher run never changes or removes the runner_id of an entry of
\* the target year that carried one when the run started, neither in the
\* results it computes nor in the file it leaves.
C3_AssignedEntriesKept ==
    Ran => /\ Len(run.results) = Len(run.before)
           /\ Len(resultsFiles[run.year]) = Len(run.before)
           /\ \A i \in DOMAIN run.before :
                  ~Unassigned(i)
                      => /\ run.results[i].runner_id = run.before[i].runner_id
                         /\ resultsFiles[run.year][i].runner_id
                                = run.before[i].runner_id

\* a run that wrote the file met Sean Murphy of position 5 already resolved
\* to sean-murphy, with a ledger decision for sean-murphy-belfast
C3_Witness ==
    /\ Ran
    /\ ~run.dryRun
    /\ \E i \in DOMAIN run.before :
          /\ run.before[i].runner_id = IdOf(SeanMurphy)
          /\ HasDecision(run.before[i])
          /\ resultsFiles[run.year][i].runner_id = IdOf(SeanMurphy)

(***************************************************************************)
(* C4  What a run writes                                                   *)
(***************************************************************************)
\* C4: a Matcher run for year Y leaves the result file of every other year
\* as it was, and with --dry-run it leaves the result file of Y and the
\* warnings file as they were too.
C4_OnlyTargetYearWritten ==
    [][ /\ \A y \in YearSet \ {run'.year} : resultsFiles'[y] = resultsFiles[y]
        /\ run'.dryRun => /\ resultsFiles' = resultsFiles
                          /\ warningsFile' = warningsFile ]_vars

\* a dry run computed ids for the new year and left its file, and the
\* warnings file, as they were, writing the preview only
C4_Witness ==
    /\ Ran
    /\ run.dryRun
    /\ run.results # run.before
    /\ resultsFiles[run.year] = run.before
    /\ warningsFile = NoWarnings
    /\ previewFile = run.report

(***************************************************************************)
(* C5  Re-matching                                                         *)
(***************************************************************************)
\* C5: a second run of the Matcher on the file a first run wrote, with the
\* same history, alias table, ledger and threshold, computes that very file:
\* no entry gains, loses or changes a runner_id.
C5_RematchingIdempotent ==
    (Ran /\ ~run.dryRun)
        => Matcher(run.year, run.confidence).results = resultsFiles[run.year]

\* a run that wrote the file started from a file an earlier run had written
\* (john-smyth is an id only a run mints) and changed nothing
C5_Witness ==
    /\ Ran
    /\ ~run.dryRun
    /\ run.results = run.before
    /\ \E i \in DOMAIN run.before : run.before[i].runner_id = IdOf(JohnSmyth)

(***************************************************************************)
(* C6  The gender gate                                                     *)
(***************************************************************************)
\* C6: the Matcher neither auto-assigns an entry to a runner nor warns with
\* that runner as suggestion when the entry and any historical entry of the
\* runner have known, different genders, and it reports no intra-year
\* duplicate pair whose two entries have known, different genders.
C6_GenderGate ==
    Ran => /\ \A i \in DOMAIN run.before :
                  (Unassigned(i) /\ run.routes[i].kind \in {"auto", "warn"})
                      => LET history == HistoryOf(run.routes[i].runnerId, run.year)
                         IN  \A h \in DOMAIN history :
                                 ~GendersDiffer(run.before[i].Category,
                                                history[h].result.Category)
           /\ \A k \in DOMAIN run.report.duplicates_in_new_year :
                  LET positions == run.report.duplicates_in_new_year[k].positions
                  IN  ~GendersDiffer(EntryAt(positions[1]).Category,
                                     EntryAt(positions[2]).Category)

(***************************************************************************)
(* C7  The time-plausibility gate                                          *)
(***************************************************************************)
\* the results of a runner the gate considers: the most recent
\* RECENT_RESULTS of the results of the RECENT_YEARS years before the
\* target year, or the whole history when there is none
Considered(runnerId, year) ==
    LET history == HistoryOf(runnerId, year)
        recent == SelectSeq(history, LAMBDA r : year - r.year <= RECENT_YEARS)
    IN  IF recent # <<>>
        THEN SubSeq(recent, Max2(1, Len(recent) - RECENT_RESULTS + 1), Len(recent))
        ELSE history

\* two finish times, both present, that differ by more than 40%
DifferTooMuch(time1Str, time2Str) ==
    /\ time1Str # NoTime
    /\ time2Str # NoTime
    /\ 100 * Abs(timeToSeconds(time1Str) - timeToSeconds(time2Str))
           > TIME_VARIANCE_PCT * Min2(timeToSeconds(time1Str),
                                      timeToSeconds(time2Str))

\* C7: the Matcher neither auto-assigns an entry to runner R nor warns with R
\* as suggestion, by fuzzy match or by alias, if the finish time of the entry
\* and that of one of R's considered results are both present and differ by
\* more than 40%.
C7_TimeGate ==
    Ran => \A i \in DOMAIN run.before :
               (Unassigned(i) /\ run.routes[i].kind \in {"auto", "warn"})
                   => LET considered == Considered(run.routes[i].runnerId, run.year)
                      IN  \A c \in DOMAIN considered :
                              ~DifferTooMuch(run.before[i].ChipTime,
                                             considered[c].result.ChipTime)

\* Scenario B: a run met John Smith, M40, 0:45:00, against John Smith's
\* 0:25:00 of the last years, and did not give him john-smith
C7_Witness ==
    /\ Ran
    /\ \E i \in DOMAIN run.before :
          /\ Unassigned(i)
          /\ ~HasDecision(run.before[i])
          /\ run.before[i].Name = JohnSmith
          /\ run.before[i].Category = M40
          /\ run.before[i].ChipTime = <<0, 45, 0>>
          /\ run.routes[i].kind = "none"
          /\ run.results[i].runner_id # IdOf(JohnSmith)

(***************************************************************************)
(* C8  Threshold routing                                                   *)
(***************************************************************************)
\* the best match of the history for result i of the last run
BestMatch(i) ==
    findBestMatch(run.before[i],
                  loadReferenceData(resultsFiles, Years, run.year),
                  nameChangesFile, run.year)

\* C8: for an entry without a ledger decision and with best gated similarity
\* s: s at or above the auto-assign threshold gives the entry the runner_id
\* of the best runner; s at or above the warning threshold and below the
\* auto-assign threshold gives a warning and nothing else; s below the
\* warning threshold gives no warning and, unless the entry is in a flagged
\* duplicate pair, a newly minted runner_id.
C8_ThresholdRouting ==
    Ran => \A i \in DOMAIN run.before :
               (Unassigned(i) /\ ~HasDecision(run.before[i]))
                   => LET s == BestMatch(i).confidence
                      IN  /\ SimAtLeast(s, run.confidence)
                                => run.results[i].runner_id = BestMatch(i).runnerId
                          /\ ( /\ SimAtLeast(s, WARNING_THRESHOLD)
                               /\ ~SimAtLeast(s, run.confidence) )
                                => /\ WarningsFor(i) # {}
                                   /\ run.results[i].runner_id = NoId
                          /\ ~SimAtLeast(s, WARNING_THRESHOLD)
                                => /\ WarningsFor(i) = {}
                                   /\ run.before[i].Position \notin FlaggedPositions
                                        => /\ run.minted[i] # NoId
                                           /\ run.results[i].runner_id = run.minted[i]

(***************************************************************************)
(* C9  Scenario C                                                          *)
(***************************************************************************)
\* the new year holds Sean Murphy at position 5 and Shaun Murphy at position
\* 12, both M35 and unresolved, and has no ledger
ScenarioC ==
    /\ Ran
    /\ ledgerFiles[run.year] = NoFile
    /\ Len(run.before) = 2
    /\ run.before[1].Name = SeanMurphy /\ run.before[1].Position = 5
    /\ run.before[2].Name = ShaunMurphy /\ run.before[2].Position = 12
    /\ run.before[1].Category = M35 /\ run.before[2].Category = M35
    /\ Unassigned(1) /\ Unassigned(2)

\* C9 as stated: in Scenario C the Matcher reports a duplicates_in_new_year
\* pair with the positions 5 and 12 and mints a runner_id for neither entry.
C9_ScenarioCFlagged ==
    ScenarioC
        => /\ \E k \in DOMAIN run.report.duplicates_in_new_year :
                  run.report.duplicates_in_new_year[k].positions = <<5, 12>>
           /\ run.results[1].runner_id = NoId
           /\ run.results[2].runner_id = NoId

\* C9 as amended: in Scenario C the Matcher reports no duplicates_in_new_year
\* pair (the first three letters of the first names differ) and mints
\* sean-murphy and shaun-murphy.
C9_ScenarioCMinted ==
    ScenarioC
        => /\ run.report.duplicates_in_new_year = <<>>
           /\ run.results[1].runner_id = IdOf(SeanMurphy)
           /\ run.results[2].runner_id = IdOf(ShaunMurphy)
           /\ run.minted[1] = IdOf(SeanMurphy)
           /\ run.minted[2] = IdOf(ShaunMurphy)

C9_Witness ==
    /\ ScenarioC
    /\ run.routes[1].kind = "none"
    /\ run.routes[2].kind = "none"
    /\ run.report.summary.new_runners_created = 2

(***************************************************************************)
(* C10  Scenario A, in the archive whose only history is John Smith, M40,  *)
(* 0:25:00, john-smith, of 2023                                            *)
(***************************************************************************)
\* result i of the last run is Jon Smith, M40, 0:25:30, unresolved and
\* without a ledger decision
ScenarioA(i) ==
    /\ run.before[i].Name = JonSmith
    /\ run.before[i].Category = M40
    /\ run.before[i].ChipTime = <<0, 25, 30>>
    /\ Unassigned(i)
    /\ ~HasDecision(run.before[i])

HistoryIds(year) ==
    UNION {{resultsFiles[y][i].runner_id : i \in DOMAIN resultsFiles[y]} :
              y \in {z \in YearSet : z < year}} \ {NoId}

\* existingIds at the moment Phase 3 reaches result i of the last run: the
\* ids of the history and the ids minted for the results before i
ExistingIdsAt(i) ==
    HistoryIds(run.year)
        \cup {run.minted[j] : j \in {h \in 1..(i - 1) : run.minted[h] # NoId}}

\* C11: every id a run mints is absent from existingIds when it is minted,
\* existingIds holding the ids of the history and the ids minted earlier in
\* the run; so the ids minted in one run are pairwise distinct and distinct
\* from every runner_id of the years before the target year.
C11_MintedIdsFresh ==
    Ran => \A i \in DOMAIN run.minted :
               run.minted[i] # NoId
                   => /\ run.minted[i] \notin ExistingIdsAt(i)
                      /\ run.minted[i] \notin HistoryIds(run.year)
                      /\ \A j \in DOMAIN run.minted :
                             (j # i /\ run.minted[j] # NoId)
                                 => run.minted[j] # run.minted[i]

\* two John Smiths who are neither the john-smith of the history nor a
\* duplicate pair are minted john-smith-2 and john-smith-3
C11_Witness ==
    /\ Ran
    /\ Len(run.before) = 2
    /\ run.before[1].Name = JohnSmith /\ run.before[2].Name = JohnSmith
    /\ IdOf(JohnSmith) \in HistoryIds(run.year)
    /\ run.minted[1] = IdOf(JohnSmith) \o <<"-", "2">>
    /\ run.minted[2] = IdOf(JohnSmith) \o <<"-", "3">>

(***************************************************************************)
(* C12  Minting fallback order                                             *)
(***************************************************************************)
\* the base slug and the club-qualified id of the last call
BaseSlug == slug(mintCall.name)

ClubQualified == BaseSlug \o <<"-">> \o beforeHyphen(slug(mintCall.club))

\* base slug + '-' + k
Suffixed(k) == BaseSlug \o <<"-">> \o numberToString(k)

\* the smallest k >= 2 whose suffixed id is unused
SmallestUnused ==
    CHOOSE k \in 2..(MaxCounter + 1) :
        /\ Suffixed(k) \notin mintCall.existingIds
        /\ \A h \in 2..(k - 1) : Suffixed(h) \in mintCall.existingIds

PaulONeillId == <<"p","a","u","l","-","o","n","e","i","l","l">>

\* C12: for a name that is not blank, generateRunnerId returns the base slug
\* if it is unused; otherwise base slug + '-' + club token if a club is given
\* and that id is unused; otherwise base slug + '-' + k for the smallest
\* k >= 2 whose id is unused.  For Paul O'Neill, existingIds = {paul-oneill}
\* and club Omagh Harriers it returns paul-oneill-omagh.
C12_FallbackOrder ==
    (mintCall.called /\ BaseSlug # <<>>)
        => /\ mintCall.newId =
                 IF BaseSlug \notin mintCall.existingIds THEN BaseSlug
                 ELSE IF mintCall.club # <<>>
                         /\ ClubQualified \notin mintCall.existingIds
                 THEN ClubQualified
                 ELSE Suffixed(SmallestUnused)
           /\ (/\ mintCall.name = PaulONeill
               /\ mintCall.existingIds = {PaulONeillId}
               /\ mintCall.club = OmaghHarriers)
                  => mintCall.newId = PaulONeillId \o <<"-","o","m","a","g","h">>

\* the call of Scenario E
C12_Witness ==
    /\ mintCall.called
    /\ mintCall.name = PaulONeill
    /\ mintCall.club = OmaghHarriers
    /\ mintCall.existingIds = {PaulONeillId}
    /\ mintCall.newId = PaulONeillId \o <<"-","o","m","a","g","h">>

(***************************************************************************)
(* C13  Stale ledger decisions                                             *)
(***************************************************************************)
\* decision k of the ledger is stale for result i of the last run: it is
\* for the Position of the result and records another name
Stale(k, i) ==
    /\ Decisions[k].position = run.before[i].Position
    /\ Decisions[k].name # run.before[i].Name

\* the decisions of the ledger without decision k
DecisionsWithout(k) ==
    SelectSeq(Array([h \in DOMAIN Decisions |-> <<h, Decisions[h]>>]),
              LAMBDA d : d[1] # k)

\* what the last run would have returned with the ledger lacking decision k
RunWithout(k) ==
    assignIdsToNewYear(run.before,
        loadReferenceData(resultsFiles, Years, run.year),
        loadReferenceData(resultsFiles, Years, run.year).existingIds,
        nameChangesFile,
        Array([h \in DOMAIN DecisionsWithout(k) |-> DecisionsWithout(k)[h][2]]),
        run.year, run.confidence)

\* the warnings of the report that name decision k: its position and the
\* name it records
WarningsNaming(k) ==
    {w \in DOMAIN run.report.uncertain_matches :
        /\ run.report.uncertain_matches[w].result.position = Decisions[k].position
        /\ run.report.uncertain_matches[w].result.name = Decisions[k].name}

\* the run has not applied decision k to result i (a runner_id from the
\* ledger is that of a decision for the Position and the Name of the
\* result), and has resolved every result as it would without the decision
NotApplied(k, i) ==
    /\ run.routes[i].kind = "ledger"
           => \E h \in DOMAIN Decisions :
                  /\ DecisionFor(h, run.before[i])
                  /\ run.routes[i].runnerId = Decisions[h].runner_id
    /\ run.routes = RunWithout(k).routes
    /\ run.results = RunWithout(k).results
    /\ run.minted = RunWithout(k).minted

\* C13 as stated: for a stale decision the Matcher does not apply the
\* decision, reports a warning that names it, and resolves the entry as if
\* the ledger did not hold the decision.
C13_StaleSkippedWithWarning ==
    Ran => \A i \in DOMAIN run.before : \A k \in DOMAIN Decisions :
               (Unassigned(i) /\ Stale(k, i))
                   => /\ NotApplied(k, i)
                      /\ WarningsNaming(k) # {}

\* C13 as amended: for a stale decision the Matcher does not apply the
\* decision and resolves the entry as if the ledger did not hold the
\* decision; its report holds no warning that names the decision.
C13_StaleSkippedSilently ==
    Ran => \A i \in DOMAIN run.before : \A k \in DOMAIN Decisions :
               (Unassigned(i) /\ Stale(k, i))
                   => /\ NotApplied(k, i)
                      /\ WarningsNaming(k) = {}

\* Jon Smith at position 5, for which the ledger records Sean Murphy, is
\* minted jon-smith
C13_Witness ==
    /\ Ran
    /\ \E i \in DOMAIN run.before : \E k \in DOMAIN Decisions :
          /\ Unassigned(i) /\ Stale(k, i)
          /\ run.before[i].Name = JonSmith
          /\ Decisions[k].name = SeanMurphy
          /\ run.results[i].runner_id = IdOf(JonSmith)

(***************************************************************************)
(* The review tool                                                         *)
(***************************************************************************)
\* a session of the review tool has been started
InSession == review.outcome # "none"

\* the decisions the session has pushed
NewDecisions ==
    SubSeq(review.decisions, review.decisionsBeforeReview + 1,
           Len(review.decisions))

\* the positions the warnings file of the session names
WarnedPositions ==
    {review.warnings.uncertain_matches[i].result.position :
        i \in DOMAIN review.warnings.uncertain_matches}
    \cup UNION {Range(review.warnings.duplicates_in_new_year[i].positions) :
                   i \in DOMAIN review.warnings.duplicates_in_new_year}

\* C14: a session of the review tool never prompts for a position that has
\* a decision in the ledger it loaded, and the ledger it saves is the loaded
\* decisions, unchanged and in their order, followed by the decisions of the
\* session
C14_ResumableReview ==
    InSession =>
        /\ \A p \in Range(review.prompted) :
               \A k \in DOMAIN review.loaded : review.loaded[k].position # p
        /\ review.outcome = "saved" =>
               /\ ledgerFiles[review.year] # NoFile
               /\ ledgerFiles[review.year].year = review.year
               /\ ledgerFiles[review.year].decisions = review.loaded \o NewDecisions

\* a second session found a decision of the first for one of the warnings,
\* prompted for another warning, and saved one more decision
C14_Witness ==
    /\ review.outcome = "saved"
    /\ review.loaded # <<>>
    /\ \E k \in DOMAIN review.loaded : review.loaded[k].position \in WarnedPositions
    /\ review.prompted # <<>>
    /\ NewDecisions # <<>>

\* the positions of the warnings the session has no decision for
Undecided ==
    {p \in WarnedPositions :
        \A k \in DOMAIN review.decisions : review.decisions[k].position # p}

\* the entry of the target year's file at a position
FiledAt(p) ==
    resultsFiles[review.year][findByPosition(resultsFiles[review.year], p)]

\* the target year's file and the ledger file hold what the session decided,
\* and nothing else of the session
SkipSaved ==
    /\ \A p \in Undecided :
           \A i \in DOMAIN review.resultsLoaded :
               review.resultsLoaded[i].Position = p =>
                   resultsFiles[review.year][i].runner_id
                       = review.resultsLoaded[i].runner_id
    /\ \A k \in DOMAIN NewDecisions :
           /\ ledgerFiles[review.year] # NoFile
           /\ NewDecisions[k] \in Range(ledgerFiles[review.year].decisions)
           /\ FiledAt(NewDecisions[k].position).runner_id
                  = NewDecisions[k].runner_id

\* C15: when the reviewer answers 's' at an Action prompt, the tool ends
\* with the entries of the warnings without a decision having in the target
\* year's file the runner_id they had when the session loaded it, and with
\* every decision made before the skip in the ledger file and in the target
\* year's file
C15_SkipRemaining ==
    [][(review.pc = "action" /\ review'.skipped) => SkipSaved']_vars

\* the reviewer decided one warning and answered 's' at the next
C15_Witness ==
    /\ review.skipped
    /\ NewDecisions # <<>>
    /\ Undecided # {}
    /\ \E p \in Undecided : FiledAt(p).runner_id = NoId

\* C16: when a session is killed at a prompt, every decision it had pushed
\* before that prompt is in the ledger file
C16_Checkpointed ==
    review.outcome = "killed" =>
        \A k \in DOMAIN NewDecisions :
            /\ ledgerFiles[review.year] # NoFile
            /\ NewDecisions[k] \in Range(ledgerFiles[review.year].decisions)

(***************************************************************************)
(* The runner database                                                     *)
(***************************************************************************)
\* what processRunners returns for the rows in the order they were drawn
InDrawnOrder == processRunners(database.rows)

\* the rows of a runner
RowsOf(id) == groupOf(database.rows, id)

FlaggedNames(id) ==
    {RowsOf(id)[i].name : i \in {h \in DOMAIN RowsOf(id) : RowsOf(id)[h].canonical_name}}

NamesOf(id) == {RowsOf(id)[i].name : i \in DOMAIN RowsOf(id)} \ {<<>>}

NameCount(id, name) ==
    Cardinality({i \in DOMAIN RowsOf(id) : RowsOf(id)[i].name = name})

GendersOf(id) == {getGender(RowsOf(id)[i].category) : i \in DOMAIN RowsOf(id)} \ {""}

GenderCount(id, gender) ==
    Cardinality({i \in DOMAIN RowsOf(id) : getGender(RowsOf(id)[i].category) = gender})

\* the flagged rows carry one name or, with no row flagged, one name is
\* more frequent than every other
NameDecided(id) ==
    IF FlaggedNames(id) # {} THEN Cardinality(FlaggedNames(id)) = 1
    ELSE \/ NamesOf(id) = {}
         \/ \E n \in NamesOf(id) :
                \A m \in NamesOf(id) \ {n} : NameCount(id, n) > NameCount(id, m)

\* one gender is more frequent than the other
GenderDecided(id) ==
    \/ GendersOf(id) = {}
    \/ \E g \in GendersOf(id) :
           \A h \in GendersOf(id) \ {g} : GenderCount(id, g) > GenderCount(id, h)

\* C17 as stated: in whatever order the rows are read, processRunners gives
\* every runner_id the same canonical_name, gender, years and total_races
C17_OrderIndependent ==
    database.processed =>
        /\ DOMAIN database.runners = DOMAIN InDrawnOrder
        /\ \A id \in DOMAIN database.runners :
               /\ database.runners[id].canonical_name = InDrawnOrder[id].canonical_name
               /\ database.runners[id].gender = InDrawnOrder[id].gender
               /\ database.runners[id].years = InDrawnOrder[id].years
               /\ database.runners[id].total_races = InDrawnOrder[id].total_races

\* C17: in whatever order the rows are read, processRunners gives every
\* runner_id the same years and total_races, the same canonical_name when
\* the runner's flagged rows carry one name or, none being flagged, one name
\* is strictly the most frequent, and the same gender when one gender is
\* strictly the most frequent
C17_OrderIndependentWithoutTies ==
    database.processed =>
        /\ DOMAIN database.runners = DOMAIN InDrawnOrder
        /\ \A id \in DOMAIN database.runners :
               /\ NameDecided(id) =>
                      database.runners[id].canonical_name
                          = InDrawnOrder[id].canonical_name
               /\ GenderDecided(id) =>
                      database.runners[id].gender = InDrawnOrder[id].gender
               /\ database.runners[id].years = InDrawnOrder[id].years
               /\ database.runners[id].total_races = InDrawnOrder[id].total_races

\* three rows of John Smith, two of them as Jon Smith and none flagged, of
\* two years, read in another order than drawn: the majority's name
C17_Witness ==
    /\ database.processed
    /\ database.allResults # database.rows
    /\ Len(RowsOf(IdOf(JohnSmith))) = 3
    /\ FlaggedNames(IdOf(JohnSmith)) = {}
    /\ NameCount(IdOf(JohnSmith), JonSmith) = 2
    /\ NameCount(IdOf(JohnSmith), JohnSmith) = 1
    /\ database.allResults[1].name = JohnSmith
    /\ database.runners[IdOf(JohnSmith)].canonical_name = JonSmith
    /\ database.runners[IdOf(JohnSmith)].years = <<2022, 2023>>
    /\ database.runners[IdOf(JohnSmith)].total_races = 2

(***************************************************************************)
(* C18  Blank names                                                        *)
(***************************************************************************)
\* the name is empty, white space, or empty after the cleaning of the slug
Blank(name) == slug(name) = <<>>

\* unknown-runner-N for the smallest N whose id existingIds lacks
SmallestUnknown(existingIds) ==
    UnknownRunner
        \o numberToString(CHOOSE n \in 1..(Cardinality(existingIds) + 1) :
               /\ (UnknownRunner \o numberToString(n)) \notin existingIds
               /\ \A h \in 1..(n - 1) :
                      (UnknownRunner \o numberToString(h)) \in existingIds)

\* C18: every run ends, and every entry of the target year with a blank
\* name, no runner_id and no ledger decision is left by the run with the id
\* unknown-runner-N minted for it, N being the smallest positive integer
\* whose id no year before and no entry minted earlier in the run holds
C18_BlankNamesMinted ==
    Ran => \A i \in DOMAIN run.before :
               (Blank(run.before[i].Name) /\ Unassigned(i)
                    /\ ~HasDecision(run.before[i]))
                   => /\ run.minted[i] = SmallestUnknown(ExistingIdsAt(i))
                      /\ run.results[i].runner_id = run.minted[i]

(***************************************************************************)
(* C19  Abort before write                                                 *)
(***************************************************************************)
\* C19: a run that reads a result file that does not parse, of a year before
\* the target year or of the target year, ends in error and leaves the
\* result files, the warnings file and its preview as they were
C19_AbortBeforeWrite ==
    [][(\E y \in YearSet : y <= run'.year /\ resultsFiles[y] = Unparseable)
           => /\ run'.error
              /\ resultsFiles' = resultsFiles
              /\ warningsFile' = warningsFile
              /\ previewFile' = previewFile]_vars

\* a run that was not a dry run ended in error on the file of 2023, the
\* target year's file being sound and holding an entry without runner_id
C19_Witness ==
    /\ run.error
    /\ ~run.dryRun
    /\ resultsFiles[2023] = Unparseable
    /\ resultsFiles[2024] # Unparseable
    /\ \E i \in DOMAIN resultsFiles[2024] : resultsFiles[2024][i].runner_id = NoId
    /\ warningsFile = NoWarnings

(***************************************************************************)
(* C20  Known-name-change override                                         *)
(***************************************************************************)
\* runner R has a history and the table lists for R an alias whose
\* normalized form is the normalized name of entry i
AliasOf(i, R) ==
    /\ R \in DOMAIN nameChangesFile
    /\ HistoryOf(R, run.year) # <<>>
    /\ \E k \in DOMAIN nameChangesFile[R] :
           normalizeName(nameChangesFile[R][k]) = normalizeName(run.before[i].Name)

\* no historical entry of R has a known gender other than the entry's, and
\* no considered result of R a time that differs too much from the entry's
PassesGates(i, R) ==
    /\ \A h \in DOMAIN HistoryOf(R, run.year) :
           ~GendersDiffer(run.before[i].Category,
                          HistoryOf(R, run.year)[h].result.Category)
    /\ \A c \in DOMAIN Considered(R, run.year) :
           ~DifferTooMuch(run.before[i].ChipTime,
                          Considered(R, run.year)[c].result.ChipTime)

\* C20: an entry without runner_id and without ledger decision whose
\* normalized name is that of an alias of runner R is, if R passes the gender
\* and the time gate, matched to R with confidence 1.0 and given R's
\* runner_id, whatever the similarity of other runners; if R fails a gate,
\* the entry is not given R's runner_id
C20_AliasOverride ==
    Ran => \A i \in DOMAIN run.before : \A R \in DOMAIN nameChangesFile :
               (Unassigned(i) /\ ~HasDecision(run.before[i]) /\ AliasOf(i, R))
                   => IF PassesGates(i, R)
                      THEN /\ run.routes[i].kind = "auto"
                           /\ run.routes[i].runnerId = R
                           /\ run.routes[i].confidence = One
                           /\ run.results[i].runner_id = R
                      ELSE run.results[i].runner_id # R

(***************************************************************************)
(* C21  The summary of a run                                               *)
(***************************************************************************)
\* the entries the last run left without runner_id
LeftUnresolved == {i \in DOMAIN run.results : run.results[i].runner_id = NoId}

\* the count main prints as 'Assigned via disambiguation'
LedgerAssigned ==
    Cardinality({i \in DOMAIN run.routes : run.routes[i].kind = "ledger"})

\* C21: the needs_review count of the summary of a run is the number of
\* entries the run leaves without runner_id, and the already-assigned,
\* auto-assigned, ledger-assigned, new-runner and needs-review counts add up
\* to the number of entries of the target year
C21_SummaryAccurate ==
    Ran => /\ run.report.summary.needs_review = Cardinality(LeftUnresolved)
           /\ run.report.summary.already_assigned
                  + run.report.summary.auto_assigned
                  + LedgerAssigned
                  + run.report.summary.new_runners_created
                  + run.report.summary.needs_review
                  = Len(run.before)

(***************************************************************************)
(* C22  One minting for both tools                                         *)
(***************************************************************************)
\* C22: for the same name, club and existing ids, generateRunnerId of the
\* review tool returns the id generateRunnerId of the Matcher returns
C22_SameMinting == mintCall.called => mintCall.reviewId = mintCall.newId

(***************************************************************************)
(* C23  Entries of a reported duplicate pair                               *)
(***************************************************************************)
\* the entries of the target year's file at a Position
EntriesAt(position) == {i \in DOMAIN run.before : run.before[i].Position = position}

\* C23: every entry at a position of a reported duplicates_in_new_year pair
\* has no runner_id at the end of the run, and every reported pair names two
\* distinct entries that Phase 1 left unassigned (warning band or no match)
C23_FlaggedPairsUnresolved ==
    Ran => \A k \in DOMAIN run.report.duplicates_in_new_year :
               /\ run.report.duplicates_in_new_year[k].positions[1]
                      # run.report.duplicates_in_new_year[k].positions[2]
               /\ \A h \in 1..2 :
                      /\ EntriesAt(run.report.duplicates_in_new_year[k].positions[h]) # {}
                      /\ \A i \in EntriesAt(run.report.duplicates_in_new_year[k].positions[h]) :
                             /\ run.results[i].runner_id = NoId
                             /\ run.routes[i].kind \in {"warn", "none"}
                             /\ run.before[i].Name
                                    = run.report.duplicates_in_new_year[k].names[h]

\* a run that was written reported the pair (5, 12), one of the two entries
\* being in the warning band, and both are without runner_id in the file
C23_Witness ==
    /\ Ran
    /\ ~run.dryRun
    /\ \E k \in DOMAIN run.report.duplicates_in_new_year :
           run.report.duplicates_in_new_year[k].positions = <<5, 12>>
    /\ \E i \in DOMAIN run.routes : run.routes[i].kind = "warn"
    /\ resultsFiles[run.year] = run.results
    /\ \A i \in DOMAIN run.results : run.results[i].runner_id = NoId

(***************************************************************************)
(* C24  Every historical name of a runner is tried                         *)
(***************************************************************************)
\* the names runner R carries in the years before the target year
HistoricalNames(R) ==
    {HistoryOf(R, run.year)[h].result.Name : h \in DOMAIN HistoryOf(R, run.year)}

\* the runners with a result in the years before the target year
HistoryRunners ==
    HistoryIds(run.year)

\* no alias of name-changes.json is the name of entry i
NoAlias(i) ==
    \A R \in DOMAIN nameChangesFile : ~AliasOf(i, R)

\* some historical name of R scores at least 0.85 against entry i and
\* passes the first-name gate
SomeNamePasses(i, R) ==
    \E n \in HistoricalNames(R) :
        /\ SimAtLeast(similarity(run.before[i].Name, n), WARNING_THRESHOLD)
        /\ firstNameMatches(run.before[i].Name, n)

\* s is the greatest similarity of the name of entry i to a name of R
GreatestOver(i, R, s) ==
    /\ \E n \in HistoricalNames(R) : similarity(run.before[i].Name, n) = s
    /\ \A n \in HistoricalNames(R) : ~SimGT(similarity(run.before[i].Name, n), s)

\* C24: for an entry without runner_id, ledger decision and alias, the
\* similarity of a fuzzy match with runner R is the maximum of the
\* similarity of the entry's name over the distinct names of R in the years
\* before the target year, and when some historical name of R scores at
\* least 0.85 and passes the first-name gate and R passes the gender and the
\* time gate, R is a candidate: the entry is auto-assigned or warned about
\* with a similarity at least R's.
C24_AllNamesTried ==
    Ran => \A i \in DOMAIN run.before :
               (Unassigned(i) /\ ~HasDecision(run.before[i]) /\ NoAlias(i))
                   => /\ run.routes[i].kind \in {"auto", "warn"}
                          => GreatestOver(i, run.routes[i].runnerId,
                                          run.routes[i].confidence)
                      /\ \A R \in HistoryRunners :
                             (SomeNamePasses(i, R) /\ PassesGates(i, R))
                                 => /\ run.routes[i].kind \in {"auto", "warn"}
                                    /\ \E n \in HistoricalNames(R) :
                                           /\ firstNameMatches(run.before[i].Name, n)
                                           /\ ~SimGT(similarity(run.before[i].Name, n),
                                                     run.routes[i].confidence)

(***************************************************************************)
(* C25  One result per runner and year                                     *)
(***************************************************************************)
\* entry i was resolved by the last run: auto-assigned or minted
ResolvedByRun(i) ==
    \/ run.routes[i].kind = "auto"
    \/ run.minted[i] # NoId

\* C25: after a run, no two entries of the target year that the run
\* auto-assigned or minted an id for carry the same runner_id.
C25_OneResultPerRunner ==
    Ran => \A i, j \in DOMAIN run.before :
               (i # j /\ ResolvedByRun(i) /\ ResolvedByRun(j))
                   => run.results[i].runner_id # run.results[j].runner_id

(***************************************************************************)
(* C26  Minted ids and the ids of the target year                          *)
(***************************************************************************)
\* C26: a runner_id minted by a run differs from the runner_id every other
\* entry of the target year carried when the run began and from every
\* runner_id the run took from the ledger.
C26_MintedIdsNewInYear ==
    Ran => \A i, j \in DOMAIN run.before :
               (i # j /\ run.minted[i] # NoId)
                   => /\ run.before[j].runner_id # run.minted[i]
                      /\ run.routes[j].kind = "ledger"
                             => run.routes[j].runnerId # run.minted[i]

(***************************************************************************)
(* C27  Names with one normalized form                                     *)
(***************************************************************************)
\* the normalized name of entry i is that of a name in R's history
SameNormalizedName(i, R) ==
    \E n \in HistoricalNames(R) :
        normalizedName(n) = normalizedName(run.before[i].Name)

\* the first historical entry of R and entry i do not have known, different genders
FirstGenderCompatible(i, R) ==
    ~GendersDiffer(run.before[i].Category, HistoryOf(R, run.year)[1].result.Category)

\* no considered result of R has a time that differs too much from entry i's
TimeGatePasses(i, R) ==
    \A c \in DOMAIN Considered(R, run.year) :
        ~DifferTooMuch(run.before[i].ChipTime,
                       Considered(R, run.year)[c].result.ChipTime)

\* C27: an entry without runner_id, ledger decision and alias whose
\* normalized name is the normalized form of a name in the history of a
\* runner R whose first historical entry has a compatible gender and who
\* passes the time gate is auto-assigned to a runner with confidence 1.0
\* and is not minted a new runner_id.
C27_SameNormalizedAssigned ==
    Ran => \A i \in DOMAIN run.before : \A R \in HistoryRunners :
               ( /\ Unassigned(i)
                 /\ ~HasDecision(run.before[i])
                 /\ NoAlias(i)
                 /\ SameNormalizedName(i, R)
                 /\ FirstGenderCompatible(i, R)
                 /\ TimeGatePasses(i, R) )
                   => /\ run.routes[i].kind = "auto"
                      /\ run.routes[i].confidence = One
                      /\ run.results[i].runner_id = run.routes[i].runnerId
                      /\ run.minted[i] = NoId

(***************************************************************************)
(* C28  Warnings skipped as already decided                                *)
(***************************************************************************)
\* the session went through all its warnings and main reached its end
ReviewedToEnd ==
    /\ review.pc = "idle"
    /\ review.outcome \in {"saved", "not_saved"}
    /\ ~review.skipped

\* the Positions the warnings of the session name that have an entry
ReviewedPositions ==
    {p \in {review.warnings.uncertain_matches[k].result.position :
                k \in DOMAIN review.warnings.uncertain_matches}
           \cup UNION {Range(review.warnings.duplicates_in_new_year[k].positions) :
                          k \in DOMAIN review.warnings.duplicates_in_new_year} :
        findByPosition(review.results, p) # 0}

\* the decisions the ledger held for Position p when the session began
LoadedFor(p) ==
    {k \in DOMAIN review.loaded : review.loaded[k].position = p}

\* the entry at Position p as the session holds and saves it
ReviewedEntry(p) ==
    review.results[findByPosition(review.results, p)]

\* C28: a warning the review tool skips because the ledger held a decision
\* for its Position leaves the entry with the runner_id of such a decision
\* in the results the session saves, and when every such decision is stale
\* (its name is not the entry's Name) the entry is presented for review.
C28_SkippedMeansDecided ==
    ReviewedToEnd
        => \A p \in ReviewedPositions :
               LoadedFor(p) # {}
                   => /\ p \notin Range(review.prompted)
                          => \E k \in LoadedFor(p) :
                                 ReviewedEntry(p).runner_id = review.loaded[k].runner_id
                      /\ (\A k \in LoadedFor(p) :
                              review.loaded[k].name # ReviewedEntry(p).Name)
                             => p \in Range(review.prompted)

(***************************************************************************)
(* C29  The best candidate and ties                                        *)
(***************************************************************************)
\* the similarity runner R scores for entry i, Zero when R fails a gate
GatedSim(i, R) ==
    gatedSimilarity(run.before[i], HistoryOf(R, run.year), run.year)

\* the runners that pass all gates for entry i
Passers(i) ==
    {R \in HistoryRunners : SimAtLeast(GatedSim(i, R), WARNING_THRESHOLD)}

\* the place of the first result of R in its file
FirstIndex(R) ==
    LET y == HistoryOf(R, run.year)[1].year
    IN  CHOOSE k \in DOMAIN resultsFiles[y] :
            /\ resultsFiles[y][k].runner_id = R
            /\ \A h \in 1..(k - 1) : resultsFiles[y][h].runner_id # R

\* the first historical result of R1 comes before that of R2 when the years
\* are read in ascending order
MetBefore(R1, R2) ==
    \/ HistoryOf(R1, run.year)[1].year < HistoryOf(R2, run.year)[1].year
    \/ /\ HistoryOf(R1, run.year)[1].year = HistoryOf(R2, run.year)[1].year
       /\ FirstIndex(R1) < FirstIndex(R2)

\* C29: for an entry without runner_id, ledger decision and alias, the
\* runner the entry is auto-assigned to, or the warning suggests, passes all
\* gates with a similarity no other passing runner exceeds; every other
\* passing runner with the same similarity is met later in the history read
\* by ascending year; the only warning for the entry names the selected
\* runner; and with no passing runner there is no match.
C29_FirstMetWinsTies ==
    Ran => \A i \in DOMAIN run.before :
               (Unassigned(i) /\ ~HasDecision(run.before[i]) /\ NoAlias(i))
                   => IF Passers(i) = {} THEN run.routes[i].kind = "none"
                      ELSE /\ run.routes[i].kind \in {"auto", "warn"}
                           /\ run.routes[i].runnerId \in Passers(i)
                           /\ run.routes[i].confidence
                                  = GatedSim(i, run.routes[i].runnerId)
                           /\ \A R \in Passers(i) \ {run.routes[i].runnerId} :
                                  /\ ~SimGT(GatedSim(i, R), run.routes[i].confidence)
                                  /\ GatedSim(i, R) = run.routes[i].confidence
                                         => MetBefore(run.routes[i].runnerId, R)
                           /\ \A k \in WarningsFor(i) :
                                  run.report.uncertain_matches[k].suggested_id
                                      = run.routes[i].runnerId
                           /\ run.routes[i].kind = "auto" => WarningsFor(i) = {}
                           /\ run.routes[i].kind = "warn"
                                  => Cardinality(WarningsFor(i)) = 1

\* a run gave John Smith of the new year to the second John Smith, who heads
\* the file of 2017, although the first John Smith scores the same
C29_Witness ==
    /\ Ran
    /\ \E i \in DOMAIN run.before :
          /\ Unassigned(i)
          /\ run.routes[i].kind = "auto"
          /\ run.routes[i].runnerId = JohnSmith2
          /\ IdOf(JohnSmith) \in Passers(i)
          /\ GatedSim(i, IdOf(JohnSmith)) = run.routes[i].confidence

(***************************************************************************)
(* C30  The full-archive script and the runner_ids of the archive          *)
(***************************************************************************)
\* C30: a run of assign-runner-ids leaves every runner_id an entry of any
\* year carried before the run as it was: only entries without runner_id
\* differ in runner_id between the files read and the files written.
C30_ExistingIdsKept ==
    [][\A y \in YearSet : \A i \in DOMAIN resultsFiles[y] :
           resultsFiles[y][i].runner_id # NoId
               => /\ i \in DOMAIN resultsFiles'[y]
                  /\ resultsFiles'[y][i].runner_id = resultsFiles[y][i].runner_id]_vars

====
